---------------------------- MODULE Spec2Model ----------------------------
(***************************************************************************)
(* Model of the Ruffle player front-end: the slug normalizers, the catalog *)
(* loader and resolver of assets/js/game-url-loader.js, the URL redirector *)
(* of redirector.js and the main page's loadGame of assets/js/script.js.   *)
(*                                                                         *)
(* A JavaScript string is a sequence of one-character strings, so that     *)
(* toLowerCase, the regular-expression replacements, includes and replace  *)
(* are computed character by character, as the engine computes them.       *)
(***************************************************************************)
EXTENDS Integers, Sequences, FiniteSets, TLC

VARIABLES
    \* ---- slug normalizers (pure functions under test)
    normIn,        \* the string handed to the normalizer
    normFn,        \* which normalizer is being applied ("none" before the first call)
    normOut,       \* results of the successive applications
    \* ---- catalog loader and resolver (game-url-loader.js, first module)
    jsonData,      \* the parsed games.json document
    gamesData,     \* the loader's lookup table (null until loaded)
    lastCall,      \* the last resolver / API call and what it returned
    \* ---- URL redirector (redirector.js)
    urlMappings,   \* the rule table the module was built with
    lastRedirect,  \* the last call of redirectUrl: its argument and its result
    \* ---- the page the redirector runs in (redirector.js)
    installed,     \* the redirector script has run: open, fetch, createElement are patched
    readyState,    \* document.readyState
    listener,      \* patchExistingElements is registered for DOMContentLoaded
    swept,         \* patchExistingElements has run
    netLog,        \* the calls of open and fetch: address asked, address the original saw
    elements,      \* the script, embed and object elements of the page
    \* ---- the main page script (script.js)
    nitromeGames,  \* the ids of the games read from games.json
    gamesJson,     \* "pending" until loadGamesFromJSON has its answer
    currentGame,   \* id of the game last asked for and found, or Null
    currentPlayer, \* the game of the player last created ("logo": the animation), or Null
    rufflePlayer,  \* what the player container shows
    infoPanel,     \* the game the information panel describes, or Null
    loads,         \* the calls of loadGame that passed the lookup, in order of call
    players,       \* the game players created, each with its error listener
    \* ---- the enhancer's use of localStorage (game-url-loader.js, second module)
    recentStore,   \* the text stored under gameLoader_recentlyPlayed, or Null
    recentLog,     \* the ids addToRecentlyPlayed was called with, in order of call
    cacheData,     \* what is stored under gameLoader_gamesData
    cacheTimestamp,\* the text stored under gameLoader_cacheTimestamp, or Null
    clock,         \* Date.now(), in hours
    lastRead,      \* the last call of getCachedGamesData: what it read and returned
    \* ---- the page in the browser (game-url-loader.js, both modules, and script.js)
    siteDoc,       \* the games.json the site serves
    mainPc,        \* where the main script's start is: "translations", "games", "done"
    loaderPc,      \* where the loader's initialize is: "translations", "games", "timer", "done"
    online,        \* navigator.onLine
    location,      \* window.location: pathname and search
    history,       \* the entries of window.history: state and address
    historyIndex,  \* the place of the current entry in history
    offlineIndicator, \* the style.display of the #offline-indicator elements of the page
    errorShown,    \* the type of the error showErrorMessage last showed, "none" before
    events,        \* the calls of GameUrlLoader.loadGame and the steps in the history
    \* ---- the enhancer's error notification (game-url-loader.js, second module)
    errorContainer,\* #game-error-container: "absent", or its style.display
    hideTimers,    \* the times the pending auto-hide timers are due, in seconds
    noticeNow,     \* the time, in seconds
    shownAt,       \* the time of the latest call of showErrorMessage, -1 before
    closedSince,   \* the close button was clicked since that call
    \* ---- the loader's own player, on a page other than the main page
    onMainPage,    \* the page has #ruffle-player and window.loadGame
    ruffleDefined, \* typeof window.RufflePlayer !== 'undefined'
    ruffleScript,  \* the page has a script element whose src contains "ruffle"
    container,     \* what the loader's game container shows
    checkRuffle,   \* the time the polling interval is next due, in ms; -1 when not set
    ruffleTimeout, \* the time the polling's timeout is due, in ms; -1 when not set
    waitNow,       \* the time, in ms
    \* ---- the two patching modules in one page (redirector.js and the
    \* ---- Nitrome patch of game-url-loader.js)
    patchChain,    \* the patching modules that have run, in the order they ran
    createdElements, \* the calls of document.createElement and what became of the element
    opens          \* the calls of xhr.open: the arguments given, and those the browser's open saw

normVars    == <<normIn, normFn, normOut>>
catalogVars == <<jsonData, gamesData, lastCall>>
redirVars   == <<urlMappings, lastRedirect>>
pageVars    == <<installed, readyState, listener, swept, netLog, elements>>
navVars     == <<nitromeGames, gamesJson, currentGame, currentPlayer, rufflePlayer,
                 infoPanel, loads, players>>
storeVars   == <<recentStore, recentLog>>
cacheVars   == <<cacheData, cacheTimestamp, clock, lastRead>>
sessVars    == <<siteDoc, mainPc, loaderPc, online, location, history, historyIndex,
                 offlineIndicator, errorShown, events>>
noticeVars  == <<errorContainer, hideTimers, noticeNow, shownAt, closedSince>>
waitVars    == <<onMainPage, ruffleDefined, ruffleScript, container, checkRuffle,
                 ruffleTimeout, waitNow>>
patchVars   == <<patchChain, createdElements, opens>>
vars        == <<normVars, catalogVars, redirVars, pageVars, navVars, storeVars, cacheVars, sessVars, noticeVars, waitVars, patchVars>>

-----------------------------------------------------------------------------
(* Bounds of the model *)

MaxStrLen == 3      \* longest string handed to a normalizer
MaxGames  == 2      \* most game objects in a catalog document
MaxAddrLen == 3     \* longest address tried against a small rule table
MaxNetCalls == 2    \* most calls of open and fetch that are logged
MaxElements == 2    \* most loadable elements in the page
MaxLoads  == 3      \* most calls of loadGame that pass the lookup
MaxAdds   == 13     \* most calls of addToRecentlyPlayed
MaxReAdds == 2      \* most of them that repeat an id added before
MaxClock  == 30     \* latest time, in hours
MaxNoticeClock == 20  \* latest time of the notification's model, in seconds
MaxErrors == 3      \* most calls of showErrorMessage
MaxCreated == 1     \* most calls of document.createElement with both modules in view
MaxOpens  == 1      \* most calls of xhr.open with both modules in view
MaxVisits == 3     \* most calls of GameUrlLoader.loadGame and steps in the history of a visit

-----------------------------------------------------------------------------
(* JavaScript strings *)

\* the value of a property that is absent (undefined); not a string
Undefined == <<"undefined">>

UpperSeq == <<"A","B","C","D","E","F","G","H","I","J","K","L","M",
              "N","O","P","Q","R","S","T","U","V","W","X","Y","Z">>
LowerSeq == <<"a","b","c","d","e","f","g","h","i","j","k","l","m",
              "n","o","p","q","r","s","t","u","v","w","x","y","z">>
Digits   == {"0","1","2","3","4","5","6","7","8","9"}

Range(s) == {s[i] : i \in DOMAIN s}

UpperChars == Range(UpperSeq)
LowerAlnumChars == Range(LowerSeq) \cup Digits
SpaceChars == {" ", "\t", "\n"}

\* the lower-case letter of every upper-case one
LowerOf == [c \in UpperChars |-> LowerSeq[CHOOSE i \in DOMAIN UpperSeq : UpperSeq[i] = c]]

IsUpper(c)      == c \in UpperChars
IsLowerAlnum(c) == c \in LowerAlnumChars                      \* [a-z0-9]
IsWordChar(c)   == IsLowerAlnum(c) \/ IsUpper(c) \/ c = "_"    \* \w
IsSpace(c)      == c \in SpaceChars                           \* \s
IsHyphen(c)     == c = "-"

lowerChar(c) == IF IsUpper(c) THEN LowerOf[c] ELSE c

\* String.prototype.toLowerCase
toLowerCase(s) == [i \in DOMAIN s |-> lowerChar(s[i])]

\* a JavaScript value used as a condition: undefined and '' are falsy
Truthy(s) == s # Undefined /\ s # <<>>

\* the character classes of the regular expressions the code uses
InClass(cls, c) ==
    CASE cls = "space"        -> IsSpace(c)                                    \* \s
      [] cls = "hyphen"       -> IsHyphen(c)                                   \* -
      [] cls = "notLowerAlnum" -> ~IsLowerAlnum(c)                             \* [^a-z0-9]
      [] cls = "special"      -> ~(IsWordChar(c) \/ IsSpace(c) \/ IsHyphen(c)) \* [^\w\s-]

RECURSIVE DropWhile(_, _)
\* s without its longest prefix of characters of class cls
DropWhile(cls, s) ==
    IF s = <<>> \/ ~InClass(cls, Head(s)) THEN s ELSE DropWhile(cls, Tail(s))

RECURSIVE Reverse(_)
Reverse(s) == IF s = <<>> THEN <<>> ELSE Append(Reverse(Tail(s)), Head(s))

\* s.replace(/^X+|X+$/g, '') for a character class X; trim() for \s
StripBoth(cls, s) == Reverse(DropWhile(cls, Reverse(DropWhile(cls, s))))

RECURSIVE ReplaceRuns(_, _, _)
\* s.replace(/X+/g, r): every maximal run of characters of class X becomes r
ReplaceRuns(cls, r, s) ==
    IF s = <<>> THEN <<>>
    ELSE IF InClass(cls, Head(s)) THEN r \o ReplaceRuns(cls, r, DropWhile(cls, Tail(s)))
    ELSE <<Head(s)>> \o ReplaceRuns(cls, r, Tail(s))

\* s.replace(/X/g, ''): the characters not of class X
RemoveChars(cls, s) == SelectSeq(s, LAMBDA c : ~InClass(cls, c))

-----------------------------------------------------------------------------
(* The slug normalizers *)

\* mutant: the hyphens are stripped before the runs are collapsed
makeUrlFriendlyStripFirst(str) ==
    IF ~Truthy(str) THEN <<>>
    ELSE StripBoth("space",
           ReplaceRuns("notLowerAlnum", <<"-">>,
             StripBoth("hyphen", toLowerCase(str))))

makeUrlFriendly(str) ==
    IF ~Truthy(str) THEN <<>>
    ELSE StripBoth("space",                                 \* .trim()
           StripBoth("hyphen",                              \* /^-+|-+$/g -> ''
             ReplaceRuns("notLowerAlnum", <<"-">>,          \* /[^a-z0-9]+/g -> '-'
               toLowerCase(str))))

createSlug(str) ==
    IF ~Truthy(str) THEN <<>>
    ELSE StripBoth("hyphen",                                \* /^-+|-+$/g -> ''
           ReplaceRuns("hyphen", <<"-">>,                   \* /-+/g -> '-'
             ReplaceRuns("space", <<"-">>,                  \* /\s+/g -> '-'
               RemoveChars("special",                       \* /[^\w\s-]/g -> ''
                 StripBoth("space", toLowerCase(str))))))   \* .toLowerCase().trim()

-----------------------------------------------------------------------------
(* The normalizers applied to every short string *)

\* one character of each class the two normalizers tell apart
NormChars == {"a", "B", "1", " ", "-", "_", "!"}

StrUpTo(chars, n) == UNION {[1..k -> chars] : k \in 0..n}

NormInputs == StrUpTo(NormChars, MaxStrLen) \cup {Undefined}

NormArg == IF normOut = <<>> THEN normIn ELSE normOut[Len(normOut)]

NormInit ==
    /\ normIn \in NormInputs
    /\ normFn = "none"
    /\ normOut = <<>>

NormIdle ==
    /\ normIn = <<>>
    /\ normFn = "none"
    /\ normOut = <<>>

\* makeUrlFriendly applied to the input, then to its own result
ApplyMakeUrlFriendly ==
    /\ normFn \in {"none", "makeUrlFriendly"}
    /\ Len(normOut) < 2
    /\ normFn' = "makeUrlFriendly"
    /\ normOut' = Append(normOut, makeUrlFriendly(NormArg))
    /\ UNCHANGED <<normIn, catalogVars, redirVars, pageVars, navVars, storeVars, cacheVars, sessVars, noticeVars, waitVars, patchVars>>

\* createSlug applied to the input, then to its own result
ApplyCreateSlug ==
    /\ normFn \in {"none", "createSlug"}
    /\ Len(normOut) < 2
    /\ normFn' = "createSlug"
    /\ normOut' = Append(normOut, createSlug(NormArg))
    /\ UNCHANGED <<normIn, catalogVars, redirVars, pageVars, navVars, storeVars, cacheVars, sessVars, noticeVars, waitVars, patchVars>>

NormNext == ApplyMakeUrlFriendly \/ ApplyCreateSlug

-----------------------------------------------------------------------------
(* The catalog document and the lookup table built from it *)

\* a game object of games.json; uid stands for the object's identity
Game(uid, id, name) == [kind |-> "entry", uid |-> uid, id |-> id, name |-> name]

\* null / undefined where a game is expected
NullGame == [kind |-> "null", uid |-> 0, id |-> Undefined, name |-> Undefined]

\* what {id: key, ...array} is when a member of the document is an array
CollectionObject(key) == [kind |-> "collection", uid |-> 0, id |-> key, name |-> Undefined]

\* the two properties every plain object inherits whose names are lower case:
\* Object.prototype.constructor (the function Object, whose name is "Object")
\* and Object.prototype.__proto__ (Object.prototype itself)
StrConstructor == <<"c","o","n","s","t","r","u","c","t","o","r">>
StrProto       == <<"_","_","p","r","o","t","o","_","_">>
ObjectFunction  == [kind |-> "function", uid |-> 0, id |-> Undefined,
                    name |-> <<"O","b","j","e","c","t">>]
ObjectPrototype == [kind |-> "prototype", uid |-> 0, id |-> Undefined, name |-> Undefined]

StrNitromeGames == <<"n","i","t","r","o","m","e","G","a","m","e","s">>

\* gamesData = null
NullTable == [isNull |-> TRUE, entries |-> <<>>]

\* the own keys of a table, in the order Object.entries lists them
OwnIndex(entries, key) ==
    IF \E i \in DOMAIN entries : entries[i].key = key
    THEN CHOOSE i \in DOMAIN entries : entries[i].key = key
    ELSE 0

\* processedGames[key] = game: an existing key keeps its place, a new one goes
\* last; assigning an object to __proto__ sets the prototype and adds no key
PutProperty(entries, key, game) ==
    IF key = StrProto THEN entries
    ELSE IF OwnIndex(entries, key) # 0
         THEN [entries EXCEPT ![OwnIndex(entries, key)].game = game]
         ELSE Append(entries, [key |-> key, game |-> game])

\* gamesData[key]: the own property, else the inherited one, else undefined
GetProperty(entries, key) ==
    IF OwnIndex(entries, key) # 0 THEN entries[OwnIndex(entries, key)].game
    ELSE IF key = StrConstructor THEN ObjectFunction
    ELSE IF key = StrProto THEN ObjectPrototype
    ELSE NullGame

RECURSIVE PutAll(_, _)
\* the assignments of a forEach, in order
PutAll(entries, assignments) ==
    IF assignments = <<>> THEN entries
    ELSE PutAll(PutProperty(entries, Head(assignments).key, Head(assignments).game),
                Tail(assignments))

RECURSIVE Flatten(_)
Flatten(seqs) == IF seqs = <<>> THEN <<>> ELSE Head(seqs) \o Flatten(Tail(seqs))

\* games.forEach(game => { if (game.id) processedGames[game.id.toLowerCase()] = game })
ArrayAssignments(games) ==
    LET withId == SelectSeq(games, LAMBDA g : Truthy(g.id))
    IN  [i \in DOMAIN withId |-> [key |-> toLowerCase(withId[i].id), game |-> withId[i]]]

\* jsonData.nitromeGames, or NullGame-like absence
HasMember(doc, key) == \E i \in DOMAIN doc.members : doc.members[i].key = key
MemberOf(doc, key)  == doc.members[CHOOSE i \in DOMAIN doc.members : doc.members[i].key = key]

\* Case 1: a plain object without a truthy nitromeGames: every member whose
\* value is an object (an array is one) becomes {id: key, ...value}
Case1Assignments(doc) ==
    IF doc.top = "object" /\ ~HasMember(doc, StrNitromeGames)
    THEN [i \in DOMAIN doc.members |->
            LET m == doc.members[i]
            IN  [key  |-> toLowerCase(m.key),
                 game |-> IF m.isArray THEN CollectionObject(m.key)
                          ELSE IF m.games[1].id # Undefined THEN m.games[1]
                          ELSE [m.games[1] EXCEPT !.id = m.key]]]
    ELSE <<>>

\* Case 2: the nitromeGames array
Case2Assignments(doc) ==
    IF doc.top = "object" /\ HasMember(doc, StrNitromeGames)
       /\ MemberOf(doc, StrNitromeGames).isArray
    THEN ArrayAssignments(MemberOf(doc, StrNitromeGames).games)
    ELSE <<>>

\* Case 3: every other array-valued key, in key order
Case3Assignments(doc) ==
    IF doc.top = "object"
    THEN Flatten([i \in DOMAIN doc.members |->
            IF doc.members[i].key # StrNitromeGames /\ doc.members[i].isArray
            THEN ArrayAssignments(doc.members[i].games) ELSE <<>>])
    ELSE <<>>

\* Case 4: the document is itself an array of games
Case4Assignments(doc) ==
    IF doc.top = "array" THEN ArrayAssignments(doc.games) ELSE <<>>

ProcessGames(assignments) == PutAll(<<>>, assignments)

\* loadGamesData once the fetch and the JSON parse have succeeded
loadGamesData(doc) ==
    LET processedGames ==
            ProcessGames(Case1Assignments(doc) \o Case2Assignments(doc)
                         \o Case3Assignments(doc) \o Case4Assignments(doc))
    IN  IF Len(processedGames) = 0 THEN NullTable
        ELSE [isNull |-> FALSE, entries |-> processedGames]

-----------------------------------------------------------------------------
(* The resolver *)

\* does the entry match in the scan of findGameByUrlName
ScanMatches(game, searchName) ==
    \/ Truthy(game.id) /\ toLowerCase(game.id) = searchName
    \/ Truthy(game.name) /\ makeUrlFriendly(game.name) = searchName

FirstMatch(entries, searchName) ==
    IF \E i \in DOMAIN entries : ScanMatches(entries[i].game, searchName)
    THEN entries[CHOOSE i \in DOMAIN entries :
                    /\ ScanMatches(entries[i].game, searchName)
                    /\ \A j \in 1..(i-1) : ~ScanMatches(entries[j].game, searchName)].game
    ELSE NullGame

\* mutant: the key is looked up as typed, without toLowerCase
findGameByUrlNameCaseSensitive(table, urlName) ==
    IF table.isNull THEN NullGame
    ELSE IF ~Truthy(urlName) THEN NullGame
    ELSE IF GetProperty(table.entries, urlName) # NullGame
         THEN GetProperty(table.entries, urlName)
         ELSE FirstMatch(table.entries, urlName)

findGameByUrlName(table, urlName) ==
    IF table.isNull THEN NullGame
    ELSE IF ~Truthy(urlName) THEN NullGame
    ELSE LET searchName == toLowerCase(urlName)
         IN  IF GetProperty(table.entries, searchName) # NullGame
             THEN GetProperty(table.entries, searchName)
             ELSE FirstMatch(table.entries, searchName)

\* game.name || game.id
NameOrId(game) == IF Truthy(game.name) THEN game.name ELSE game.id

findGameBySlug(table, slug) ==
    IF table.isNull THEN NullGame
    ELSE LET normalizedSlug == createSlug(slug)
             hit(i) == createSlug(NameOrId(table.entries[i].game)) = normalizedSlug
         IN  IF \E i \in DOMAIN table.entries : hit(i)
             THEN table.entries[CHOOSE i \in DOMAIN table.entries :
                                    hit(i) /\ \A j \in 1..(i-1) : ~hit(j)].game
             ELSE NullGame

-----------------------------------------------------------------------------
(* The loader's public API and the catalogs and keys it is exercised with *)

GameIds    == {<<"A">>, <<"a">>, <<"b">>, Undefined}
GameNames  == {<<"a">>, <<"A"," ","b">>, Undefined}
MemberKeys == {StrNitromeGames, <<"A">>, <<"b">>}
LookupKeys == {<<"A">>, <<"a">>, <<"b">>, <<"a","-","b">>, <<"A"," ","b">>,
               <<"a","_","b">>, StrConstructor, <<>>}

\* the shape of a document: a top-level array of n games, or an object whose
\* members each hold an array of games or, under the key, a single game
MemberShape(key, isArray, n) == [key |-> key, isArray |-> isArray, n |-> n]
MemberForms(most) == {<<TRUE, n>> : n \in 0..most} \cup (IF most >= 1 THEN {<<FALSE, 1>>} ELSE {})

ArrayShapes(most) ==
    {[top |-> "array", n |-> n, members |-> <<>>] : n \in 0..most}

OneMemberShapes(most) ==
    {[top |-> "object", n |-> 0, members |-> <<MemberShape(k, form[1], form[2])>>] :
        k \in MemberKeys, form \in MemberForms(most)}

\* two members, each holding at least one game; the key pairs put nitromeGames
\* before and after another collection, and two plain keys side by side
MemberKeyPairs == {<<StrNitromeGames, <<"b">>>>, <<<<"b">>, StrNitromeGames>>,
                   <<<<"A">>, <<"b">>>>}

TwoMemberShapes(most) ==
    {[top |-> "object", n |-> 0,
      members |-> <<MemberShape(kk[1], ff[1][1], ff[1][2]), MemberShape(kk[2], ff[2][1], ff[2][2])>>] :
        kk \in MemberKeyPairs,
        ff \in {x \in MemberForms(most) \X MemberForms(most) :
                    x[1][2] >= 1 /\ x[2][2] >= 1 /\ x[1][2] + x[2][2] <= most}}

DocShapes(most) == ArrayShapes(most) \cup OneMemberShapes(most) \cup TwoMemberShapes(most)

\* the number of games of a shape, and of its members before member m
GamesBefore(shape, m) ==
    IF m = 1 THEN 0 ELSE shape.members[1].n
TotalGames(shape) ==
    IF shape.top = "array" THEN shape.n
    ELSE IF Len(shape.members) = 1 THEN shape.members[1].n
    ELSE shape.members[1].n + shape.members[2].n

\* the document of a shape whose i-th game, in source order, has the id and
\* the name f[i]; games are told apart by their place in the source
BuildDocument(shape, f) ==
    [top |-> shape.top,
     games |-> [i \in 1..shape.n |-> Game(i, f[i][1], f[i][2])],
     members |-> [m \in DOMAIN shape.members |->
        [key |-> shape.members[m].key,
         isArray |-> shape.members[m].isArray,
         games |-> [i \in 1..shape.members[m].n |->
                      Game(GamesBefore(shape, m) + i,
                           f[GamesBefore(shape, m) + i][1],
                           f[GamesBefore(shape, m) + i][2])]]]]

NoCall == [op |-> "none", key |-> <<>>, game |-> NullGame, ret |-> "none"]

\* before games.json has been fetched
NoDocument == [top |-> "none", games |-> <<>>, members |-> <<>>]

CatalogInit ==
    /\ jsonData = NoDocument
    /\ gamesData = NullTable
    /\ lastCall = NoCall

CatalogIdle ==
    /\ jsonData = NoDocument
    /\ gamesData = NullTable
    /\ lastCall = NoCall

\* initialize, which runs once when the DOM is ready: gamesData = await
\* loadGamesData(). The fetch answers with a document, or fails (or is not ok),
\* which is caught and gives null. (loadGameFromUrl would load again while
\* gamesData is null, but initialize schedules it only once gamesData is set.)
InitializeLoader ==
    /\ jsonData = NoDocument
    /\ gamesData.isNull
    /\ lastCall = NoCall
    /\ \/ \E shape \in DocShapes(MaxGames) :
          \E f \in [1..TotalGames(shape) -> GameIds \X GameNames] :
             /\ jsonData' = BuildDocument(shape, f)
             /\ gamesData' = loadGamesData(BuildDocument(shape, f))
       \/ UNCHANGED <<jsonData, gamesData>>
    /\ UNCHANGED <<lastCall, normVars, redirVars, pageVars, navVars, storeVars, cacheVars, sessVars, noticeVars, waitVars, patchVars>>

\* window.GameUrlLoader.loadGame(gameId) of the first module: the game that
\* findGameByUrlName returns and loadGame(game) is handed, and true or false
CallApiLoadGame ==
    /\ lastCall = NoCall
    /\ \E key \in LookupKeys :
         LET game == findGameByUrlName(gamesData, key)
         IN  lastCall' = [op |-> "loadGame", key |-> key, game |-> game,
                          ret |-> IF gamesData.isNull \/ game = NullGame
                                  THEN "false" ELSE "true"]
    /\ UNCHANGED <<jsonData, gamesData, normVars, redirVars, pageVars, navVars, storeVars, cacheVars, sessVars, noticeVars, waitVars, patchVars>>

\* window.GameUrlLoader.getGameUrl(gameId) of the first module: origin/<game.id>
\* for the game found, or null
CallGetGameUrl ==
    /\ lastCall = NoCall
    /\ \E key \in LookupKeys :
         LET game == findGameByUrlName(gamesData, key)
         IN  lastCall' = [op |-> "getGameUrl", key |-> key, game |-> game,
                          ret |-> IF game = NullGame THEN "null" ELSE "url"]
    /\ UNCHANGED <<jsonData, gamesData, normVars, redirVars, pageVars, navVars, storeVars, cacheVars, sessVars, noticeVars, waitVars, patchVars>>

\* findGameBySlug, the fallback loadGameEnhanced takes when the loader's own
\* loadGame returned false
CallFindGameBySlug ==
    /\ lastCall = NoCall
    /\ \E key \in LookupKeys :
         LET game == findGameBySlug(gamesData, key)
         IN  lastCall' = [op |-> "findGameBySlug", key |-> key, game |-> game,
                          ret |-> IF game = NullGame THEN "null" ELSE "game"]
    /\ UNCHANGED <<jsonData, gamesData, normVars, redirVars, pageVars, navVars, storeVars, cacheVars, sessVars, noticeVars, waitVars, patchVars>>

\* The queries leave the loader's state alone, so a behaviour makes one query,
\* before or after the catalog is loaded: a second one would find what the
\* first one found.
CatalogNext ==
    \/ InitializeLoader
    \/ CallApiLoadGame
    \/ CallGetGameUrl
    \/ CallFindGameBySlug

-----------------------------------------------------------------------------
(* The URL redirector: strings *)

\* is sub found in s at (0-based) position i
OccursAt(s, sub, i) ==
    /\ i + Len(sub) <= Len(s)
    /\ \A k \in 1..Len(sub) : s[i + k] = sub[k]

\* String.prototype.includes
Includes(s, sub) == \E i \in 0..Len(s) : OccursAt(s, sub, i)

\* String.prototype.indexOf, for a substring that occurs
IndexOf(s, sub) ==
    CHOOSE i \in 0..Len(s) : OccursAt(s, sub, i) /\ \A j \in 0..(i-1) : ~OccursAt(s, sub, j)

RECURSIVE GetSubstitution(_, _, _, _)
\* the replacement text of replace(string, string): $$ is $, $& the match,
\* $` what precedes it, $' what follows it; any other $ stands for itself
GetSubstitution(repl, matched, before, after) ==
    IF repl = <<>> THEN <<>>
    ELSE IF Head(repl) = "$" /\ Len(repl) >= 2 /\ repl[2] \in {"$", "&", "`", "'"}
         THEN (CASE repl[2] = "$" -> <<"$">>
                 [] repl[2] = "&" -> matched
                 [] repl[2] = "`" -> before
                 [] repl[2] = "'" -> after)
              \o GetSubstitution(Tail(Tail(repl)), matched, before, after)
         ELSE <<Head(repl)>> \o GetSubstitution(Tail(repl), matched, before, after)

\* url.replace(from, to) with a string pattern: the first occurrence only
Replace(s, from, to) ==
    IF ~Includes(s, from) THEN s
    ELSE LET i      == IndexOf(s, from)
             before == SubSeq(s, 1, i)
             after  == SubSeq(s, i + Len(from) + 1, Len(s))
         IN  before \o GetSubstitution(to, from, before, after) \o after

-----------------------------------------------------------------------------
(* The URL redirector: the rule table and redirectUrl *)

StrNitromeCdn   == <<"h","t","t","p","s",":","/","/","c","d","n",".","n","i","t","r","o","m","e",".","c","o","m","/","c","o","m","p","o","n","e","n","t","s","/">>
StrNitromePkg   == <<"N","i","t","r","o","m","e","A","P","I",".","p","k","g">>
StrXperia       == <<"h","t","t","p","s",":","/","/","c","d","n",".","x","p","e","r","i","a",".","p","t","/">>
StrJogos        == <<"h","t","t","p","s",":","/","/","j","o","g","o","s",".","i","p","v","7",".","p","t","/">>
StrLaserquest   == <<"h","t","t","p","s",":","/","/","c","d","n",".","x","p","e","r","i","a",".","p","t","/","l","a","s","e","r","q","u","e","s","t","/">>
StrTxtGDE       == <<"t","x","t","G","D","E",".","s","w","f">>
StrFaq          == <<"f","a","q",".","s","w","f">>
StrHora         == <<"h","o","r","a",".","s","w","f">>
StrNov          == <<"n","o","v",".","s","w","f">>

Rule(from, to) == [from |-> from, to |-> to]

\* const urlMappings = [...]
DefaultMappings == <<
    Rule(StrNitromeCdn \o StrNitromePkg, StrXperia \o StrNitromePkg),
    Rule(StrJogos \o StrTxtGDE, StrLaserquest \o StrTxtGDE),
    Rule(StrJogos \o StrFaq,    StrLaserquest \o StrFaq),
    Rule(StrJogos \o StrHora,   StrLaserquest \o StrHora),
    Rule(StrJogos \o StrNov,    StrLaserquest \o StrNov) >>

\* a JavaScript value handed to redirectUrl: a string, or an object with an
\* address (a URL, a Request), or undefined
StringValue(s)  == [type |-> "string", str |-> s]
ObjectValue(t, s) == [type |-> t, str |-> s]

\* the first rule, in declared order, whose from occurs in the string; 0 if none
FirstRule(mappings, s) ==
    IF \E i \in DOMAIN mappings : Includes(s, mappings[i].from)
    THEN CHOOSE i \in DOMAIN mappings :
            /\ Includes(s, mappings[i].from)
            /\ \A j \in 1..(i-1) : ~Includes(s, mappings[j].from)
    ELSE 0

RECURSIVE ApplyAll(_, _)
ApplyAll(mappings, s) ==
    IF mappings = <<>> THEN s
    ELSE ApplyAll(Tail(mappings), Replace(s, Head(mappings).from, Head(mappings).to))

\* mutant: the loop does not return at the first rule that matches
redirectStringNoReturn(mappings, s) == ApplyAll(mappings, s)

\* mutant: the rule's to is returned in place of the rewritten address
redirectStringReturnsTo(mappings, s) ==
    IF FirstRule(mappings, s) = 0 THEN s ELSE mappings[FirstRule(mappings, s)].to

\* redirectUrl on a string: the for loop over urlMappings
redirectString(mappings, s) ==
    IF FirstRule(mappings, s) = 0 THEN s
    ELSE Replace(s, mappings[FirstRule(mappings, s)].from, mappings[FirstRule(mappings, s)].to)

\* redirectUrl: what is not a string is returned as it is
redirectUrl(mappings, url) ==
    IF url.type # "string" THEN url ELSE StringValue(redirectString(mappings, url.str))

-----------------------------------------------------------------------------
(* The URL redirector: the tables and addresses tried, and the call *)

\* the from of every rule of the default table, and addresses no rule matches
DefaultFroms == { DefaultMappings[i].from : i \in DOMAIN DefaultMappings }
Unmatched == { <<"g","a","m","e","s",".","j","s","o","n">>, StrJogos \o <<"o","t","h","e","r",".","s","w","f">>, StrLaserquest \o StrFaq,
               <<"H","T","T","P","S",":","/","/","J","O","G","O","S",".","I","P","V","7",".","P","T","/","F","A","Q",".","S","W","F">>, <<"h","t","t","p","s",":","/","/","j","o","g","o","s",".","i","p","v","7",".","p","t","/","f","a","q",".","s","w">>, <<>> }

\* an address is a core (a rule's from, or an address no rule matches), after
\* an optional prefix and before an optional query, which may name a second
\* address
Prefixes == { <<>>, <<"/","p","r","o","x","y","?","u","=">> }
Suffixes == { <<>>, <<"?","v","=","1">> } \cup { <<"&">> \o f : f \in DefaultFroms }
DefaultAddresses ==
    { p \o c \o q : p \in Prefixes, c \in DefaultFroms \cup Unmatched, q \in Suffixes }

\* small rule tables: one or two rules over a three-letter alphabet
SmallFroms == { <<"a">>, <<"b">>, <<"a","b">>, <<"b","c">>, <<>> }
SmallTos   == { <<>>, <<"X">>, <<"b">>, <<"$","&","c">> }
SmallRules == { Rule(f, t) : f \in SmallFroms, t \in SmallTos }
\* no two rules of a table have the same from
SmallTables ==
    { <<r>> : r \in SmallRules }
    \cup { t \in { <<r1, r2>> : r1 \in SmallRules, r2 \in SmallRules } : t[1].from # t[2].from }
SmallAddresses == StrUpTo({"a", "b", "c"}, MaxAddrLen)

RuleTables == {DefaultMappings} \cup SmallTables

\* what a caller may hand to redirectUrl under a table
AddressesFor(mappings) ==
    IF mappings = DefaultMappings
    THEN { StringValue(a) : a \in DefaultAddresses }
         \cup { ObjectValue("URL", StrJogos \o StrFaq), ObjectValue("undefined", <<>>) }
    ELSE { StringValue(a) : a \in SmallAddresses }

NoRedirect == [arg |-> ObjectValue("none", <<>>), out |-> ObjectValue("none", <<>>)]

RedirInit ==
    /\ urlMappings \in RuleTables
    /\ lastRedirect = NoRedirect

RedirIdle ==
    /\ urlMappings = DefaultMappings
    /\ lastRedirect = NoRedirect

\* window.UrlRedirector.redirectUrl(url); the function keeps nothing between
\* calls, so one call is followed per behaviour
CallRedirectUrl ==
    /\ lastRedirect = NoRedirect
    /\ \E url \in AddressesFor(urlMappings) :
          lastRedirect' = [arg |-> url, out |-> redirectUrl(urlMappings, url)]
    /\ UNCHANGED <<urlMappings, normVars, catalogVars, pageVars, navVars, storeVars, cacheVars, sessVars, noticeVars, waitVars, patchVars>>

RedirNext == CallRedirectUrl

-----------------------------------------------------------------------------
(* The page: network calls through the patched open and fetch *)

\* the value XMLHttpRequest.prototype.open hands to the original open
xhrOpen(mappings, url) == redirectUrl(mappings, url)

\* the value window.fetch hands to the original fetch
fetch(mappings, resource) ==
    IF Truthy(resource.str) /\ resource.type = "string"
    THEN redirectUrl(mappings, resource)
    ELSE IF resource.type = "Request"
         THEN IF redirectUrl(mappings, StringValue(resource.str)).str # resource.str
              THEN ObjectValue("Request", redirectUrl(mappings, StringValue(resource.str)).str)
              ELSE resource
         ELSE resource

\* addresses the page asks the network for
NetAddresses == { StrJogos \o StrFaq, StrNitromeCdn \o StrNitromePkg, <<"g","a","m","e","s",".","j","s","o","n">> }

\* the forms an address is given in
XhrForms   == { "string", "URL" }
FetchForms == { "string", "Request", "URL" }

NetCall(api, form, asked, seen, patched) ==
    [api |-> api, form |-> form, asked |-> asked, seen |-> seen, patched |-> patched]

PageInit ==
    /\ installed = FALSE
    /\ readyState = "loading"
    /\ listener = FALSE
    /\ swept = FALSE
    /\ netLog = <<>>
    /\ elements = <<>>

\* xhr.open(method, url)
XhrOpen ==
    /\ Len(netLog) < MaxNetCalls
    /\ \E form \in XhrForms, a \in NetAddresses :
          netLog' = Append(netLog,
              NetCall("xhr", form, a,
                      IF installed THEN xhrOpen(urlMappings, ObjectValue(form, a)).str ELSE a,
                      installed))
    /\ UNCHANGED <<installed, readyState, listener, swept, elements>>
    /\ UNCHANGED <<normVars, catalogVars, redirVars, navVars, storeVars, cacheVars, sessVars, noticeVars, waitVars, patchVars>>

\* fetch(resource)
Fetch ==
    /\ Len(netLog) < MaxNetCalls
    /\ \E form \in FetchForms, a \in NetAddresses :
          netLog' = Append(netLog,
              NetCall("fetch", form, a,
                      IF installed THEN fetch(urlMappings, ObjectValue(form, a)).str ELSE a,
                      installed))
    /\ UNCHANGED <<installed, readyState, listener, swept, elements>>
    /\ UNCHANGED <<normVars, catalogVars, redirVars, navVars, storeVars, cacheVars, sessVars, noticeVars, waitVars, patchVars>>

-----------------------------------------------------------------------------
(* The page: loadable elements and the patched createElement *)

LoadableTags == { "script", "embed", "object" }

\* addresses the page gives to elements
ElementAddresses == { StrJogos \o StrFaq, <<"g","a","m","e",".","s","w","f">> }

\* an element: accessor says that createElement defined the redirecting src /
\* data property on it; attr is the resource address the loader sees (src of
\* script and embed, data of object); asked is the address last given to it,
\* how names the way it was given, late that it was given after startup
Element(tag, accessor, attached, attr, asked, how, late) ==
    [tag |-> tag, accessor |-> accessor, attached |-> attached,
     attr |-> attr, asked |-> asked, how |-> how, late |-> late]

\* the redirector has run and so has its sweep over the existing elements
Startup == installed /\ swept

\* document.createElement(tagName) once patched, and before
createElement(tag, patched) ==
    Element(tag, patched, FALSE, Undefined, Undefined, "none", FALSE)

\* element.src = url / element.data = url
SetProperty(mappings, el, url, late) ==
    [el EXCEPT !.attr = IF el.accessor THEN redirectUrl(mappings, StringValue(url)).str ELSE url,
               !.asked = url, !.how = "property", !.late = late]

\* element.setAttribute('src' / 'data', url): the method is not patched
setAttribute(mappings, el, url, late) ==
    [el EXCEPT !.attr = url, !.asked = url, !.how = "setAttribute", !.late = late]

\* patchExistingElements: embed and object elements of the document that have
\* an address
patchExistingElements(mappings, els) ==
    [i \in DOMAIN els |->
        IF els[i].tag \in {"embed", "object"} /\ els[i].attached
           /\ els[i].attr # Undefined /\ Truthy(els[i].attr)
        THEN [els[i] EXCEPT !.attr = redirectUrl(mappings, StringValue(els[i].attr)).str]
        ELSE els[i]]

\* the redirector script runs: the patches are installed, and the sweep runs
\* now or is left to DOMContentLoaded
InstallRedirector ==
    /\ ~installed
    /\ installed' = TRUE
    /\ IF readyState = "loading"
       THEN /\ listener' = TRUE
            /\ UNCHANGED <<swept, elements>>
       ELSE /\ elements' = patchExistingElements(urlMappings, elements)
            /\ swept' = TRUE
            /\ UNCHANGED listener
    /\ UNCHANGED <<readyState, netLog>>
    /\ UNCHANGED <<normVars, catalogVars, redirVars, navVars, storeVars, cacheVars, sessVars, noticeVars, waitVars, patchVars>>

\* the document is parsed: DOMContentLoaded fires
DomContentLoaded ==
    /\ readyState = "loading"
    /\ readyState' = "interactive"
    /\ IF listener
       THEN /\ elements' = patchExistingElements(urlMappings, elements)
            /\ swept' = TRUE
       ELSE UNCHANGED <<swept, elements>>
    /\ UNCHANGED <<installed, listener, netLog>>
    /\ UNCHANGED <<normVars, catalogVars, redirVars, navVars, storeVars, cacheVars, sessVars, noticeVars, waitVars, patchVars>>

\* the parser inserts an element the markup gives an address to
ParseElement ==
    /\ readyState = "loading"
    /\ Len(elements) < MaxElements
    /\ \E tag \in LoadableTags, a \in ElementAddresses :
          elements' = Append(elements, Element(tag, FALSE, TRUE, a, a, "parser", FALSE))
    /\ UNCHANGED <<installed, readyState, listener, swept, netLog>>
    /\ UNCHANGED <<normVars, catalogVars, redirVars, navVars, storeVars, cacheVars, sessVars, noticeVars, waitVars, patchVars>>

\* a script of the page calls document.createElement
CreateElement ==
    /\ Len(elements) < MaxElements
    /\ \E tag \in LoadableTags :
          elements' = Append(elements, createElement(tag, installed))
    /\ UNCHANGED <<installed, readyState, listener, swept, netLog>>
    /\ UNCHANGED <<normVars, catalogVars, redirVars, navVars, storeVars, cacheVars, sessVars, noticeVars, waitVars, patchVars>>

\* a created element is put into the document
AppendChild ==
    /\ \E i \in DOMAIN elements :
          /\ ~elements[i].attached
          /\ elements' = [elements EXCEPT ![i].attached = TRUE]
    /\ UNCHANGED <<installed, readyState, listener, swept, netLog>>
    /\ UNCHANGED <<normVars, catalogVars, redirVars, navVars, storeVars, cacheVars, sessVars, noticeVars, waitVars, patchVars>>

\* a script of the page assigns the src / data property of an element
AssignProperty ==
    /\ \E i \in DOMAIN elements, a \in ElementAddresses :
          elements' = [elements EXCEPT ![i] = SetProperty(urlMappings, elements[i], a, Startup)]
    /\ UNCHANGED <<installed, readyState, listener, swept, netLog>>
    /\ UNCHANGED <<normVars, catalogVars, redirVars, navVars, storeVars, cacheVars, sessVars, noticeVars, waitVars, patchVars>>

\* a script of the page sets the src / data attribute of an element
SetAttribute ==
    /\ \E i \in DOMAIN elements, a \in ElementAddresses :
          elements' = [elements EXCEPT ![i] = setAttribute(urlMappings, elements[i], a, Startup)]
    /\ UNCHANGED <<installed, readyState, listener, swept, netLog>>
    /\ UNCHANGED <<normVars, catalogVars, redirVars, navVars, storeVars, cacheVars, sessVars, noticeVars, waitVars, patchVars>>

\* the game loader's embed fallback: createElement('embed'),
\* setAttribute('src', gamePath), container.appendChild(embed)
LoaderEmbedFallback ==
    /\ Len(elements) < MaxElements
    /\ \E a \in ElementAddresses :
          elements' = Append(elements,
              [setAttribute(urlMappings, createElement("embed", installed), a, Startup)
                  EXCEPT !.attached = TRUE, !.how = "fallback"])
    /\ UNCHANGED <<installed, readyState, listener, swept, netLog>>
    /\ UNCHANGED <<normVars, catalogVars, redirVars, navVars, storeVars, cacheVars, sessVars, noticeVars, waitVars, patchVars>>

NetNext == InstallRedirector \/ DomContentLoaded \/ XhrOpen \/ Fetch

ElementNext ==
    \/ InstallRedirector
    \/ DomContentLoaded
    \/ ParseElement
    \/ CreateElement
    \/ AppendChild
    \/ AssignProperty
    \/ SetAttribute
    \/ LoaderEmbedFallback

-----------------------------------------------------------------------------
(* The main page script: loadGame *)

Null == <<"null">>

\* the ids games.json lists under nitromeGames, and an id it does not list
ListedIds  == { <<"A">>, <<"B">> }
UnlistedId == <<"Z">>

\* what the player container shows
Overlay       == [kind |-> "overlay", game |-> Null]
LogoPlayer    == [kind |-> "logo", game |-> Null]
ErrorMessage(what, id)  == [kind |-> what, game |-> id]
GamePlayer(id)  == [kind |-> "player", game |-> id]

\* a call of loadGame waiting for its HEAD request; finished is its place in
\* the order of completion, 0 while it waits
Load(id) == [id |-> id, pc |-> "check", finished |-> 0]
NumFinished == Cardinality({ i \in DOMAIN loads : loads[i].pc = "done" })

\* the part of the page state loadGame reads and writes
NavState ==
    [currentGame |-> currentGame, currentPlayer |-> currentPlayer,
     rufflePlayer |-> rufflePlayer, infoPanel |-> infoPanel, players |-> players]

\* mutant: the current game is recorded when the player has been created
afterCheckSetsCurrentGame(st, id, outcome, created) ==
    IF outcome = "notOk" THEN [st EXCEPT !.rufflePlayer = ErrorMessage("fileNotFound", id)]
    ELSE IF outcome = "throw" THEN [st EXCEPT !.rufflePlayer = ErrorMessage("errorAccessing", id)]
    ELSE IF ~created THEN [st EXCEPT !.rufflePlayer = ErrorMessage("failedInit", id)]
    ELSE [st EXCEPT !.rufflePlayer = GamePlayer(id),
                    !.players = Append(st.players, [game |-> id, errored |-> FALSE]),
                    !.infoPanel = id,
                    !.currentPlayer = id,
                    !.currentGame = id]

\* loadGame from the answer of the HEAD request to its end: the response is
\* not ok, or fetch threw, or the player is created (or its creation throws)
afterCheck(st, id, outcome, created) ==
    IF outcome = "notOk" THEN [st EXCEPT !.rufflePlayer = ErrorMessage("fileNotFound", id)]
    ELSE IF outcome = "throw" THEN [st EXCEPT !.rufflePlayer = ErrorMessage("errorAccessing", id)]
    ELSE IF ~created THEN [st EXCEPT !.rufflePlayer = ErrorMessage("failedInit", id)]
    ELSE [st EXCEPT !.rufflePlayer = GamePlayer(id),
                    !.players = Append(st.players, [game |-> id, errored |-> FALSE]),
                    !.infoPanel = id,
                    !.currentPlayer = id]

NavInit ==
    /\ nitromeGames = {}
    /\ gamesJson = "pending"
    /\ currentGame = Null
    /\ currentPlayer = Null
    /\ rufflePlayer = Overlay
    /\ infoPanel = Null
    /\ loads = <<>>
    /\ players = <<>>

\* loadGamesFromJSON after its fetch: the list is stored and the logo
\* animation (or, if the player cannot be created, the overlay) is shown; a
\* failed fetch shows an error
GamesJsonResponse ==
    /\ gamesJson = "pending"
    /\ gamesJson' = "done"
    /\ \/ /\ \E listed \in {ListedIds, {}} : nitromeGames' = listed
          /\ \/ rufflePlayer' = LogoPlayer /\ currentPlayer' = <<"logo">>
             \/ rufflePlayer' = Overlay /\ UNCHANGED currentPlayer
          /\ infoPanel' = Null
       \/ /\ rufflePlayer' = ErrorMessage("errorLoading", Null)
          /\ UNCHANGED <<nitromeGames, currentPlayer, infoPanel>>
    /\ UNCHANGED <<currentGame, loads, players>>
    /\ UNCHANGED <<normVars, catalogVars, redirVars, pageVars, storeVars, cacheVars, sessVars, noticeVars, waitVars, patchVars>>

\* loadGame(gameId) up to its await
CallLoadGame ==
    /\ Len(loads) < MaxLoads
    /\ \E gameId \in ListedIds \cup {UnlistedId} :
          IF gameId \notin nitromeGames
          THEN /\ rufflePlayer' = ErrorMessage("gameNotFound", gameId)
               /\ UNCHANGED <<currentGame, loads>>
          ELSE /\ currentGame' = gameId
               /\ loads' = Append(loads, Load(gameId))
               /\ UNCHANGED rufflePlayer
    /\ UNCHANGED <<nitromeGames, gamesJson, currentPlayer, infoPanel, players>>
    /\ UNCHANGED <<normVars, catalogVars, redirVars, pageVars, storeVars, cacheVars, sessVars, noticeVars, waitVars, patchVars>>

\* the HEAD request of a waiting call is answered and the call runs to its end
HeadResponse ==
    /\ \E i \in DOMAIN loads, outcome \in {"ok", "notOk", "throw"}, created \in BOOLEAN :
          /\ loads[i].pc = "check"
          /\ LET st == afterCheck(NavState, loads[i].id, outcome, created)
             IN  /\ currentGame' = st.currentGame
                 /\ currentPlayer' = st.currentPlayer
                 /\ rufflePlayer' = st.rufflePlayer
                 /\ infoPanel' = st.infoPanel
                 /\ players' = st.players
          /\ loads' = [loads EXCEPT ![i].pc = "done", ![i].finished = NumFinished + 1]
    /\ UNCHANGED <<nitromeGames, gamesJson>>
    /\ UNCHANGED <<normVars, catalogVars, redirVars, pageVars, storeVars, cacheVars, sessVars, noticeVars, waitVars, patchVars>>

\* a game player raises its error event: the listener loadGame gave it runs
PlayerError ==
    /\ \E p \in DOMAIN players :
          /\ ~players[p].errored
          /\ players' = [players EXCEPT ![p].errored = TRUE]
          /\ rufflePlayer' = ErrorMessage("failedLoad", players[p].game)
    /\ UNCHANGED <<nitromeGames, gamesJson, currentGame, currentPlayer, infoPanel, loads>>
    /\ UNCHANGED <<normVars, catalogVars, redirVars, pageVars, storeVars, cacheVars, sessVars, noticeVars, waitVars, patchVars>>

\* updatePageLanguage (a flag is clicked, or the translations arrive): the
\* information panel is written again for currentGame
UpdatePageLanguage ==
    /\ infoPanel' = currentGame
    /\ UNCHANGED <<nitromeGames, gamesJson, currentGame, currentPlayer, rufflePlayer,
                   loads, players>>
    /\ UNCHANGED <<normVars, catalogVars, redirVars, pageVars, storeVars, cacheVars, sessVars, noticeVars, waitVars, patchVars>>

NavNext ==
    \/ GamesJsonResponse
    \/ CallLoadGame
    \/ HeadResponse
    \/ PlayerError
    \/ UpdatePageLanguage

-----------------------------------------------------------------------------
(* The enhancer's recently played list *)

\* JSON.stringify of a string: quotes around it, and a backslash before every
\* quote and backslash in it
EscapeChar(c) == IF c \in {"\"", "\\"} THEN <<"\\", c>> ELSE <<c>>
RECURSIVE Escape(_)
Escape(s) == IF s = <<>> THEN <<>> ELSE EscapeChar(Head(s)) \o Escape(Tail(s))
Quote(s) == <<"\"">> \o Escape(s) \o <<"\"">>

RECURSIVE JoinQuoted(_)
JoinQuoted(list) ==
    IF list = <<>> THEN <<>>
    ELSE IF Len(list) = 1 THEN Quote(list[1])
    ELSE Quote(list[1]) \o <<",">> \o JoinQuoted(Tail(list))

\* JSON.stringify of an array of strings
StringifyList(list) == <<"[">> \o JoinQuoted(list) \o <<"]">>

RECURSIVE ParseFrom(_, _, _, _, _)
\* the strings of the array text t from position i on: inStr says that i is
\* inside a string, cur holds the characters of that string read so far
ParseFrom(t, i, inStr, cur, acc) ==
    IF i > Len(t) THEN acc
    ELSE IF ~inStr
         THEN ParseFrom(t, i + 1, t[i] = "\"", <<>>, acc)
         ELSE IF t[i] = "\\" THEN ParseFrom(t, i + 2, TRUE, Append(cur, t[i + 1]), acc)
         ELSE IF t[i] = "\"" THEN ParseFrom(t, i + 1, FALSE, <<>>, Append(acc, cur))
         ELSE ParseFrom(t, i + 1, TRUE, Append(cur, t[i]), acc)

\* JSON.parse of the text of an array of strings
ParseList(t) == ParseFrom(t, 1, FALSE, <<>>, <<>>)

\* localStorage.getItem(key) || '[]'
StoredList(stored) == ParseList(IF stored = Null THEN <<"[", "]">> ELSE stored)

\* recentlyPlayed.filter(id => id !== gameId)
RECURSIVE Without(_, _)
Without(list, gameId) ==
    IF list = <<>> THEN <<>>
    ELSE IF Head(list) = gameId THEN Without(Tail(list), gameId)
    ELSE <<Head(list)>> \o Without(Tail(list), gameId)

\* if (recentlyPlayed.length > 10) recentlyPlayed.pop()
RecentLimit == 10
Limit(list) == IF Len(list) > RecentLimit THEN SubSeq(list, 1, Len(list) - 1) ELSE list

\* mutant: the id is put in front without removing the entry it already has
addToRecentlyPlayedNoFilter(stored, gameId) ==
    StringifyList(Limit(<<gameId>> \o StoredList(stored)))

\* addToRecentlyPlayed: the text stored after the call
addToRecentlyPlayed(stored, gameId) ==
    StringifyList(Limit(<<gameId>> \o Without(StoredList(stored), gameId)))

\* the ids the calls take: a new id is the next of the pool
IdPool == << <<"a">>, <<"A">>, <<"b">>, <<"\"">>, <<"\\">>, <<",">>, <<"a", "b">>,
             <<"a", "\"", ",", "\"", "b">>, <<"c">>, <<"d">>, <<"e">>, <<"f">>, <<"g">>, <<"h">> >>

Added == { recentLog[i] : i \in DOMAIN recentLog }
NumReAdds == Len(recentLog) - Cardinality(Added)

\* ids added before that a call may repeat: the first, the second and the last
\* of the list, and the ids the list has dropped
Repeatable ==
    LET list == StoredList(recentStore)
    IN  { list[i] : i \in DOMAIN list \cap {1, 2, Len(list)} }
        \cup { id \in Added : \A i \in DOMAIN list : list[i] # id }

StoreInit ==
    /\ recentStore = Null
    /\ recentLog = <<>>

\* addToRecentlyPlayed(gameId)
AddToRecentlyPlayed ==
    /\ Len(recentLog) < MaxAdds
    /\ \E gameId \in
            (IF Cardinality(Added) < Len(IdPool) THEN {IdPool[Cardinality(Added) + 1]} ELSE {})
            \cup (IF NumReAdds < MaxReAdds THEN Repeatable ELSE {}) :
          /\ recentStore' = addToRecentlyPlayed(recentStore, gameId)
          /\ recentLog' = Append(recentLog, gameId)
    /\ UNCHANGED <<normVars, catalogVars, redirVars, pageVars, navVars, cacheVars, sessVars, noticeVars, waitVars, patchVars>>

StoreNext == AddToRecentlyPlayed

-----------------------------------------------------------------------------
(* The enhancer's cache of the catalog *)

\* CONFIG.CACHE_EXPIRATION, 24 * 60 * 60 * 1000 ms, in hours
CACHE_EXPIRATION == 24

DigitSeq == <<"0", "1", "2", "3", "4", "5", "6", "7", "8", "9">>
DigitValue(c) == (CHOOSE i \in DOMAIN DigitSeq : DigitSeq[i] = c) - 1

\* Number.prototype.toString of a time
RECURSIVE toString(_)
toString(n) == IF n < 10 THEN <<DigitSeq[n + 1]>> ELSE toString(n \div 10) \o <<DigitSeq[(n % 10) + 1]>>

\* the digits a text starts with
RECURSIVE LeadingDigits(_)
LeadingDigits(s) ==
    IF s = <<>> \/ Head(s) \notin Digits THEN <<>> ELSE <<Head(s)>> \o LeadingDigits(Tail(s))

RECURSIVE DecimalValue(_)
DecimalValue(d) == IF d = <<>> THEN 0 ELSE 10 * DecimalValue(SubSeq(d, 1, Len(d) - 1)) + DigitValue(d[Len(d)])

NaN == [nan |-> TRUE, n |-> 0]
Number(n) == [nan |-> FALSE, n |-> n]

\* parseInt(text): white space is skipped, a sign is read, then the digits up
\* to the first character that is none; NaN without a digit
parseInt(text) ==
    LET t == DropWhile("space", text)
        signed == t # <<>> /\ Head(t) \in {"-", "+"}
        d == LeadingDigits(IF signed THEN Tail(t) ELSE t)
    IN  IF d = <<>> THEN NaN
        ELSE IF signed /\ Head(t) = "-" THEN Number(0 - DecimalValue(d))
        ELSE Number(DecimalValue(d))

\* Date.now() - parseInt(timestamp) > CONFIG.CACHE_EXPIRATION: a comparison
\* with NaN is false
Expired(now, timestamp) ==
    ~parseInt(timestamp).nan /\ now - parseInt(timestamp).n > CACHE_EXPIRATION

\* what the store holds under the data key: nothing, the empty text, a text
\* that is no JSON, the text null, or the JSON text of a table
MissingData   == [kind |-> "missing", table |-> NullTable]
EmptyData     == [kind |-> "empty", table |-> NullTable]
CorruptData   == [kind |-> "corrupt", table |-> NullTable]
NullData      == [kind |-> "null", table |-> NullTable]

\* JSON.stringify(gamesData) and JSON.parse of that text
StringifyTable(table) == [kind |-> "json", table |-> table]
ParseTable(data) == data.table

\* getCachedGamesData: null without a timestamp, with an expired one, without
\* data, and when parsing or reading the data throws
getCachedGamesData(timestamp, data, now) ==
    IF timestamp = Null \/ timestamp = <<>> \/ Expired(now, timestamp) THEN NullTable
    ELSE IF data.kind \in {"missing", "empty"} THEN NullTable
    ELSE IF data.kind \in {"corrupt", "null"} THEN NullTable
    ELSE ParseTable(data)

\* a table to cache
SampleTable ==
    loadGamesData(BuildDocument([top |-> "array", n |-> 1, members |-> <<>>],
                                << <<(<<"A">>), (<<"a">>)>> >>))

\* what an earlier visit may have left in the store
StoredData == {MissingData, EmptyData, CorruptData, NullData, StringifyTable(SampleTable)}
StoredTimestamps ==
    {Null, <<>>, <<"a", "b", "c">>, <<"N", "a", "N">>, <<"5", "x">>, <<" ", "6">>, <<"-", "1">>}
    \cup {toString(n) : n \in {0, 5, 6, 29}}

NoRead == [called |-> FALSE, timestamp |-> Null, data |-> MissingData, now |-> 0,
           result |-> NullTable]

CacheIdle ==
    /\ cacheData = MissingData
    /\ cacheTimestamp = Null
    /\ clock = 0
    /\ lastRead = NoRead

CacheInit ==
    /\ cacheData \in StoredData
    /\ cacheTimestamp \in StoredTimestamps
    /\ clock \in {0, 5}
    /\ lastRead = NoRead

\* time passes: the expiry time, or an hour more
AdvanceClock ==
    /\ \E d \in {CACHE_EXPIRATION, CACHE_EXPIRATION + 1} :
          /\ clock + d <= MaxClock
          /\ clock' = clock + d
    /\ UNCHANGED <<cacheData, cacheTimestamp, lastRead>>
    /\ UNCHANGED <<normVars, catalogVars, redirVars, pageVars, navVars, storeVars, sessVars, noticeVars, waitVars, patchVars>>

\* a gameDataLoaded event reaches the enhancer's listener:
\* cacheGamesData(e.detail.gamesData)
GameDataLoadedEvent ==
    /\ \E table \in {NullTable, SampleTable} :
          IF table.isNull
          THEN UNCHANGED <<cacheData, cacheTimestamp>>
          ELSE /\ cacheData' = StringifyTable(table)
               /\ cacheTimestamp' = toString(clock)
    /\ UNCHANGED <<clock, lastRead>>
    /\ UNCHANGED <<normVars, catalogVars, redirVars, pageVars, navVars, storeVars, sessVars, noticeVars, waitVars, patchVars>>

\* getCachedGamesData()
CallGetCachedGamesData ==
    /\ lastRead' = [called |-> TRUE, timestamp |-> cacheTimestamp, data |-> cacheData,
                    now |-> clock,
                    result |-> getCachedGamesData(cacheTimestamp, cacheData, clock)]
    /\ UNCHANGED <<cacheData, cacheTimestamp, clock>>
    /\ UNCHANGED <<normVars, catalogVars, redirVars, pageVars, navVars, storeVars, sessVars, noticeVars, waitVars, patchVars>>

CacheNext == AdvanceClock \/ GameDataLoadedEvent \/ CallGetCachedGamesData

-----------------------------------------------------------------------------
(* The page in the browser: its address and history, the start of the two
   scripts, and the enhanced loader (game-url-loader.js, both modules) *)

StrId   == <<"i", "d">>
StrLang == <<"l", "a", "n", "g">>

\* the characters URLSearchParams writes as %XX, among those the model uses
PercentCodes == << [c |-> "&", code |-> <<"%", "2", "6">>],
                   [c |-> "=", code |-> <<"%", "3", "D">>],
                   [c |-> "+", code |-> <<"%", "2", "B">>],
                   [c |-> "%", code |-> <<"%", "2", "5">>],
                   [c |-> "?", code |-> <<"%", "3", "F">>],
                   [c |-> "/", code |-> <<"%", "2", "F">>],
                   [c |-> "#", code |-> <<"%", "2", "3">>] >>

\* application/x-www-form-urlencoded: a space is written +, a reserved
\* character %XX, letters, digits and * - . _ as they are
PercentEncodeChar(c) ==
    IF c = " " THEN <<"+">>
    ELSE IF \E i \in DOMAIN PercentCodes : PercentCodes[i].c = c
         THEN PercentCodes[CHOOSE i \in DOMAIN PercentCodes : PercentCodes[i].c = c].code
         ELSE <<c>>

RECURSIVE PercentEncode(_)
PercentEncode(s) ==
    IF s = <<>> THEN <<>> ELSE PercentEncodeChar(Head(s)) \o PercentEncode(Tail(s))

RECURSIVE PercentDecode(_)
PercentDecode(s) ==
    IF s = <<>> THEN <<>>
    ELSE IF Head(s) = "+" THEN <<" ">> \o PercentDecode(Tail(s))
    ELSE IF /\ Head(s) = "%" /\ Len(s) >= 3
            /\ \E i \in DOMAIN PercentCodes : PercentCodes[i].code = SubSeq(s, 1, 3)
         THEN <<PercentCodes[CHOOSE i \in DOMAIN PercentCodes :
                                PercentCodes[i].code = SubSeq(s, 1, 3)].c>>
              \o PercentDecode(SubSeq(s, 4, Len(s)))
    ELSE <<Head(s)>> \o PercentDecode(Tail(s))

\* the place of the first c in s, 0 if there is none
FirstIndex(s, c) ==
    IF \E i \in DOMAIN s : s[i] = c
    THEN CHOOSE i \in DOMAIN s : s[i] = c /\ \A j \in 1..(i-1) : s[j] # c
    ELSE 0

RECURSIVE Split(_, _)
\* String.prototype.split on one character
Split(s, sep) ==
    IF FirstIndex(s, sep) = 0 THEN <<s>>
    ELSE <<SubSeq(s, 1, FirstIndex(s, sep) - 1)>>
         \o Split(SubSeq(s, FirstIndex(s, sep) + 1, Len(s)), sep)

\* one name=value of a query
ParsePair(piece) ==
    IF FirstIndex(piece, "=") = 0
    THEN [name |-> PercentDecode(piece), value |-> <<>>]
    ELSE [name  |-> PercentDecode(SubSeq(piece, 1, FirstIndex(piece, "=") - 1)),
          value |-> PercentDecode(SubSeq(piece, FirstIndex(piece, "=") + 1, Len(piece)))]

\* new URLSearchParams(window.location.search)
URLSearchParams(search) ==
    LET query  == IF search # <<>> /\ Head(search) = "?" THEN Tail(search) ELSE search
        pieces == SelectSeq(Split(query, "&"), LAMBDA p : p # <<>>)
    IN  [i \in DOMAIN pieces |-> ParsePair(pieces[i])]

\* params.get(name): the first value, or null
ParamsGet(params, name) ==
    IF \E i \in DOMAIN params : params[i].name = name
    THEN params[CHOOSE i \in DOMAIN params :
                    params[i].name = name /\ \A j \in 1..(i-1) : params[j].name # name].value
    ELSE Null

\* params.set(name, value): the first pair of that name takes the value and
\* the others of that name go; without such a pair one is appended
ParamsSet(params, name, value) ==
    IF \E i \in DOMAIN params : params[i].name = name
    THEN LET first == CHOOSE i \in DOMAIN params :
                         params[i].name = name /\ \A j \in 1..(i-1) : params[j].name # name
             kept  == {i \in DOMAIN params : params[i].name # name \/ i = first}
             nth(k) == CHOOSE i \in kept : Cardinality({j \in kept : j < i}) = k - 1
         IN  [k \in 1..Cardinality(kept) |->
                IF nth(k) = first THEN [name |-> name, value |-> value] ELSE params[nth(k)]]
    ELSE Append(params, [name |-> name, value |-> value])

RECURSIVE ParamsToString(_)
\* params.toString()
ParamsToString(params) ==
    IF params = <<>> THEN <<>>
    ELSE PercentEncode(Head(params).name) \o <<"=">> \o PercentEncode(Head(params).value)
         \o (IF Len(params) > 1 THEN <<"&">> ELSE <<>>) \o ParamsToString(Tail(params))

\* the address of the page without its origin: the path and the query
Url(pathname, search) == [pathname |-> pathname, search |-> search]

\* the browser's reading of the address pushState is given, origin removed:
\* the path runs to the first ?, the query from there; a lone ? is no query
ParseUrl(url) ==
    IF FirstIndex(url, "?") = 0 THEN Url(url, <<>>)
    ELSE Url(SubSeq(url, 1, FirstIndex(url, "?") - 1),
             IF FirstIndex(url, "?") = Len(url) THEN <<>>
             ELSE SubSeq(url, FirstIndex(url, "?"), Len(url)))

\* path.split('/').filter(part => part.trim() !== '')[0], undefined if none
FirstPathPart(pathname) ==
    LET parts == SelectSeq(Split(pathname, "/"), LAMBDA p : StripBoth("space", p) # <<>>)
    IN  IF parts = <<>> THEN Undefined ELSE parts[1]

\* getGameNameFromUrl: the first part of the path, or CONFIG.defaultGame ('')
getGameNameFromUrl(pathname) ==
    IF Truthy(FirstPathPart(pathname)) THEN FirstPathPart(pathname) ELSE <<>>

\* the part of the page the loader's handlers read and write
World ==
    [currentGame |-> currentGame, rufflePlayer |-> rufflePlayer, loads |-> loads,
     location |-> location, history |-> history, historyIndex |-> historyIndex,
     recentStore |-> recentStore, recentLog |-> recentLog,
     offlineIndicator |-> offlineIndicator, errorShown |-> errorShown]

\* one statement after another: rest applied to what first has evaluated to
AndThen(first, rest(_)) == CHOOSE r \in {rest(v) : v \in {first}} : TRUE

\* window.loadGame(gameId), the main script's loadGame, up to its await
windowLoadGame(w, gameId) ==
    IF gameId \notin nitromeGames
    THEN [w EXCEPT !.rufflePlayer = ErrorMessage("gameNotFound", gameId)]
    ELSE [w EXCEPT !.currentGame = gameId, !.loads = Append(w.loads, Load(gameId))]

\* window.history.pushState({gameId: state}, title, url): the entries after
\* the current one go, the new one is added and becomes the current one
pushState(w, state, url) ==
    [w EXCEPT !.history = Append(SubSeq(w.history, 1, w.historyIndex),
                                 [state |-> state, url |-> ParseUrl(url)]),
              !.historyIndex = w.historyIndex + 1,
              !.location = ParseUrl(url)]

\* the enhanced getGames(): the cached catalog if there is one, else a copy
\* of the loader's table
getGames ==
    IF ~getCachedGamesData(cacheTimestamp, cacheData, clock).isNull
    THEN getCachedGamesData(cacheTimestamp, cacheData, clock)
    ELSE gamesData

updateBrowserUrl(w, gameId) ==
    IF getGames.isNull \/ ~Truthy(gameId) THEN w
    ELSE AndThen(GetProperty(getGames.entries, toLowerCase(gameId)), LAMBDA game :
            IF game = NullGame THEN w
            ELSE LET slug   == createSlug(NameOrId(game))
                     params == ParamsSet(URLSearchParams(w.location.search), StrId, game.id)
                 IN  pushState(w, game.id,
                               <<"/">> \o slug \o <<"?">> \o ParamsToString(params)))

\* addToRecentlyPlayed(gameId) on the page's store
recordRecentlyPlayed(w, gameId) ==
    [w EXCEPT !.recentStore = addToRecentlyPlayed(w.recentStore, gameId),
              !.recentLog = Append(w.recentLog, gameId)]

\* the enhancer's listener of the gameLoaded event
gameLoadedListener(w, game) ==
    AndThen(updateBrowserUrl(w, game.id), LAMBDA v : recordRecentlyPlayed(v, game.id))

\* loadGame(game) of the first module on the main page: the main script's
\* loadGame is called with the id, then the gameLoaded event is dispatched
loadGame(w, game) ==
    AndThen(windowLoadGame(w, game.id), LAMBDA v : gameLoadedListener(v, game))

\* window.GameUrlLoader.loadGame(gameId) of the first module
originalLoadGame(w, gameId) ==
    IF gamesData.isNull THEN [w |-> w, result |-> FALSE]
    ELSE AndThen(findGameByUrlName(gamesData, gameId), LAMBDA game :
            IF game # NullGame THEN [w |-> loadGame(w, game), result |-> TRUE]
            ELSE [w |-> w, result |-> FALSE])

showErrorMessage(w, errorType) == [w EXCEPT !.errorShown = errorType]

\* mutant: the indicator is created without looking for the one that is there
showOfflineMessageAlwaysCreates(w) ==
    [w EXCEPT !.offlineIndicator = Append(w.offlineIndicator, "block")]

\* showOfflineMessage(): the indicator is created and appended if the page
\* has none, else the one found is displayed
showOfflineMessage(w) ==
    IF w.offlineIndicator = <<>>
    THEN [w EXCEPT !.offlineIndicator = <<"block">>]
    ELSE [w EXCEPT !.offlineIndicator[1] = "block"]

\* hideOfflineMessage(): the indicator found, if any, is hidden
hideOfflineMessage(w) ==
    IF w.offlineIndicator = <<>> THEN w
    ELSE [w EXCEPT !.offlineIndicator[1] = "none"]

\* initNetworkMonitoring's check of navigator.onLine, on the page without an
\* indicator
InitialIndicator(connected) == IF connected THEN <<>> ELSE <<"block">>

\* the catalog getCachedGamesData returns holds the game
CachedGame(gameId) ==
    /\ ~getCachedGamesData(cacheTimestamp, cacheData, clock).isNull
    /\ GetProperty(getCachedGamesData(cacheTimestamp, cacheData, clock).entries,
                   toLowerCase(gameId)) # NullGame

\* loadGameEnhanced after the loader's own loadGame has returned the result
\* first: the address and the list are updated, or the game is looked for by
\* its slug and loaded, or the error is shown
afterOriginalLoadGame(first, gameId) ==
    IF first.result
    THEN [w |-> AndThen(updateBrowserUrl(first.w, gameId),
                        LAMBDA v : recordRecentlyPlayed(v, gameId)),
          result |-> TRUE]
    ELSE AndThen(findGameBySlug(getGames, gameId), LAMBDA gameBySlug :
            IF gameBySlug = NullGame
            THEN [w |-> showErrorMessage(first.w, "gameNotFound"), result |-> FALSE]
            ELSE AndThen(originalLoadGame(first.w, gameBySlug.id), LAMBDA second :
                    IF second.result
                    THEN [w |-> AndThen(updateBrowserUrl(second.w, gameBySlug.id),
                                        LAMBDA v : recordRecentlyPlayed(v, gameBySlug.id)),
                          result |-> TRUE]
                    ELSE [w |-> showErrorMessage(second.w, "gameNotFound"),
                          result |-> FALSE]))

\* loadGameEnhanced(gameId), which window.GameUrlLoader.loadGame is
\* (processUrlParameters, which it calls, sets the language and asks for full
\* screen, and only logs the id parameter)
loadGameEnhanced(w, gameId) ==
    IF online THEN AndThen(originalLoadGame(w, gameId),
                           LAMBDA first : afterOriginalLoadGame(first, gameId))
    ELSE IF ~CachedGame(gameId)
    THEN [w |-> showErrorMessage(showOfflineMessage(w), "offline"), result |-> FALSE]
    ELSE AndThen(originalLoadGame(showOfflineMessage(w), gameId),
                 LAMBDA first : afterOriginalLoadGame(first, gameId))

\* loadGameFromUrl with gamesData loaded (it is called by the start timer and
\* as popstate listener, both set up only once gamesData is there)
loadGameFromUrl(w) ==
    AndThen(getGameNameFromUrl(w.location.pathname), LAMBDA urlGameName :
        IF ~Truthy(urlGameName) THEN w
        ELSE AndThen(findGameByUrlName(gamesData, urlGameName), LAMBDA game :
                IF game = NullGame THEN w ELSE loadGame(w, game)))

\* the enhancer's popstate listener; state is e.state.gameId, Null without it
popstateListener(w, state) ==
    AndThen(FirstPathPart(w.location.pathname), LAMBDA gamePath :
        IF ~Truthy(gamePath) THEN w
        ELSE IF state # Null /\ Truthy(state) THEN loadGameEnhanced(w, state).w
        ELSE AndThen(findGameBySlug(getGames, gamePath), LAMBDA gameBySlug :
                IF gameBySlug # NullGame THEN loadGameEnhanced(w, gameBySlug.id).w
                ELSE loadGameEnhanced(w, gamePath).w))

\* the browser moves to another entry of the history and dispatches popstate:
\* the enhancer's listener was added first, the loader's in initialize
popstate(w, index, listening) ==
    AndThen([w EXCEPT !.historyIndex = index, !.location = w.history[index].url],
            LAMBDA moved :
        AndThen(popstateListener(moved, w.history[index].state), LAMBDA heard :
            IF listening THEN loadGameFromUrl(heard) ELSE heard))

\* the catalogs the site serves as games.json: the nitromeGames array, and an
\* object keyed by id whose entry carries an id of its own
ArrayCatalog ==
    [top |-> "object", games |-> <<>>,
     members |-> << [key |-> StrNitromeGames, isArray |-> TRUE,
                     games |-> << Game(1, <<"A", "_", "b">>, <<"A", " ", "b">>),
                                  Game(2, <<"B", "&">>, Undefined) >>] >>]
KeyedCatalog ==
    [top |-> "object", games |-> <<>>,
     members |-> << [key |-> <<"b">>, isArray |-> FALSE,
                     games |-> << Game(1, <<"A", "_", "b">>, Undefined) >>] >>]
SiteDocs == {ArrayCatalog, KeyedCatalog}

\* data.nitromeGames || [] of the main script, as the ids it finds games by
MainIds(doc) ==
    IF HasMember(doc, StrNitromeGames) /\ MemberOf(doc, StrNitromeGames).isArray
    THEN {g.id : g \in Range(MemberOf(doc, StrNitromeGames).games)}
    ELSE {}

\* the addresses the page is opened at
StartPaths == { <<"/">>, <<"/", "a", "-", "b">>, <<"/", "z">> }
StartSearches == { <<>>, <<"?", "i", "d", "=", "A", "_", "b", "&", "l", "a", "n", "g", "=", "p", "t">> }
StartUrls == {Url(p, s) : p \in StartPaths, s \in StartSearches}

\* the keys GameUrlLoader.loadGame is called with: the ids as the catalogs
\* store them, and one of them in lower case
SessionIds == { <<"A", "_", "b">>, <<"B", "&">>, <<"a", "_", "b">> }

\* an event of the visit: a call of GameUrlLoader.loadGame with what it
\* returned, or a step back or forward in the history. length is the number
\* of entries of the history when the event began, index the place of the
\* entry that was current then (for a step: of the entry moved to), connected
\* is navigator.onLine at the event, adds the number of calls of
\* addToRecentlyPlayed made before it
Event(kind, gameId, result, length, index) ==
    [kind |-> kind, gameId |-> gameId, result |-> result, length |-> length,
     index |-> index, connected |-> online, adds |-> Len(recentLog)]

SessionInit ==
    /\ siteDoc \in SiteDocs
    /\ mainPc = "translations"
    /\ loaderPc = "translations"
    /\ online \in BOOLEAN
    /\ location \in StartUrls
    /\ history = <<[state |-> Null, url |-> location]>>
    /\ historyIndex = 1
    /\ offlineIndicator = InitialIndicator(online)
    /\ errorShown = "none"
    /\ events = <<>>

SessionIdle ==
    /\ siteDoc = NoDocument
    /\ mainPc = "translations"
    /\ loaderPc = "translations"
    /\ online = TRUE
    /\ location = Url(<<"/">>, <<>>)
    /\ history = <<[state |-> Null, url |-> Url(<<"/">>, <<>>)]>>
    /\ historyIndex = 1
    /\ offlineIndicator = <<>>
    /\ errorShown = "none"
    /\ events = <<>>

\* the page after a handler of the loader has run
SetWorld(w) ==
    /\ currentGame' = w.currentGame
    /\ rufflePlayer' = w.rufflePlayer
    /\ loads' = w.loads
    /\ location' = w.location
    /\ history' = w.history
    /\ historyIndex' = w.historyIndex
    /\ recentStore' = w.recentStore
    /\ recentLog' = w.recentLog
    /\ offlineIndicator' = w.offlineIndicator
    /\ errorShown' = w.errorShown

\* the main script's DOMContentLoaded handler after await loadTranslations(),
\* with Ruffle present: the logo animation is shown, the page language applied
\* and loadGamesFromJSON started
MainTranslationsResponse ==
    /\ mainPc = "translations"
    /\ mainPc' = "games"
    /\ rufflePlayer' = LogoPlayer
    /\ currentPlayer' = <<"logo">>
    /\ infoPanel' = currentGame
    /\ UNCHANGED <<nitromeGames, gamesJson, currentGame, loads, players>>
    /\ UNCHANGED <<siteDoc, loaderPc, online, location, history, historyIndex,
                   offlineIndicator, errorShown, events>>
    /\ UNCHANGED <<normVars, catalogVars, redirVars, pageVars, storeVars, cacheVars, noticeVars, waitVars, patchVars>>

\* loadGamesFromJSON after its fetch, in the main script's start: with the
\* network there the list is stored and the logo animation shown, or the
\* fetch failed
MainGamesJsonResponse ==
    /\ mainPc = "games"
    /\ mainPc' = "done"
    /\ gamesJson' = "done"
    /\ \/ /\ online
          /\ nitromeGames' = MainIds(siteDoc)
          /\ rufflePlayer' = LogoPlayer
          /\ currentPlayer' = <<"logo">>
          /\ infoPanel' = Null
       \/ /\ rufflePlayer' = ErrorMessage("errorLoading", Null)
          /\ UNCHANGED <<nitromeGames, currentPlayer, infoPanel>>
    /\ UNCHANGED <<currentGame, loads, players>>
    /\ UNCHANGED <<siteDoc, loaderPc, online, location, history, historyIndex,
                   offlineIndicator, errorShown, events>>
    /\ UNCHANGED <<normVars, catalogVars, redirVars, pageVars, storeVars, cacheVars, noticeVars, waitVars, patchVars>>

\* initialize of the first module after await loadTranslations()
LoaderTranslationsResponse ==
    /\ loaderPc = "translations"
    /\ loaderPc' = "games"
    /\ UNCHANGED <<siteDoc, mainPc, online, location, history, historyIndex,
                   offlineIndicator, errorShown, events>>
    /\ UNCHANGED <<normVars, catalogVars, redirVars, pageVars, navVars, storeVars, cacheVars, noticeVars, waitVars, patchVars>>

\* initialize after await loadGamesData(): with a catalog (fetched with the
\* network there) the start timer is set and loadGameFromUrl becomes a
\* popstate listener; a failed fetch leaves gamesData null
LoaderGamesJsonResponse ==
    /\ loaderPc = "games"
    /\ \/ /\ online
          /\ jsonData' = siteDoc
          /\ gamesData' = loadGamesData(siteDoc)
          /\ loaderPc' = IF loadGamesData(siteDoc).isNull THEN "done" ELSE "timer"
       \/ /\ loaderPc' = "done"
          /\ UNCHANGED <<jsonData, gamesData>>
    /\ UNCHANGED lastCall
    /\ UNCHANGED <<siteDoc, mainPc, online, location, history, historyIndex,
                   offlineIndicator, errorShown, events>>
    /\ UNCHANGED <<normVars, redirVars, pageVars, navVars, storeVars, cacheVars, noticeVars, waitVars, patchVars>>

\* the 100 ms timer of initialize fires: loadGameFromUrl
StartTimer ==
    /\ loaderPc = "timer"
    /\ loaderPc' = "done"
    /\ \E w \in {World} : \E after \in {loadGameFromUrl(w)} : SetWorld(after)
    /\ UNCHANGED <<nitromeGames, gamesJson, currentPlayer, infoPanel, players>>
    /\ UNCHANGED <<siteDoc, mainPc, online, events>>
    /\ UNCHANGED <<normVars, catalogVars, redirVars, pageVars, cacheVars, noticeVars, waitVars, patchVars>>

\* loadGameFromUrl is a popstate listener
Listening == loaderPc \in {"timer", "done"} /\ ~gamesData.isNull

\* initialize of the first module has run to its end; the events of a visit
\* are taken from then on (before, loadGame finds no catalog and the history
\* has one entry)
Started == loaderPc = "done"

\* the page calls window.GameUrlLoader.loadGame(gameId)
CallEnhancedLoadGame ==
    /\ Started
    /\ Len(events) < MaxVisits
    /\ \E gameId \in SessionIds, w \in {World} :
          \E call \in {loadGameEnhanced(w, gameId)} :
              /\ SetWorld(call.w)
              /\ events' = Append(events,
                    Event("loadGame", gameId, call.result, Len(history), historyIndex))
    /\ UNCHANGED <<nitromeGames, gamesJson, currentPlayer, infoPanel, players>>
    /\ UNCHANGED <<siteDoc, mainPc, loaderPc, online>>
    /\ UNCHANGED <<normVars, catalogVars, redirVars, pageVars, cacheVars, noticeVars, waitVars, patchVars>>

\* the visitor steps back in the history
Back ==
    /\ Started
    /\ Len(events) < MaxVisits
    /\ historyIndex > 1
    /\ \E w \in {World} : \E after \in {popstate(w, historyIndex - 1, Listening)} :
          SetWorld(after)
    /\ events' = Append(events, Event("back", Null, FALSE, Len(history), historyIndex - 1))
    /\ UNCHANGED <<nitromeGames, gamesJson, currentPlayer, infoPanel, players>>
    /\ UNCHANGED <<siteDoc, mainPc, loaderPc, online>>
    /\ UNCHANGED <<normVars, catalogVars, redirVars, pageVars, cacheVars, noticeVars, waitVars, patchVars>>

\* the visitor steps forward in the history
Forward ==
    /\ Started
    /\ Len(events) < MaxVisits
    /\ historyIndex < Len(history)
    /\ \E w \in {World} : \E after \in {popstate(w, historyIndex + 1, Listening)} :
          SetWorld(after)
    /\ events' = Append(events, Event("forward", Null, FALSE, Len(history), historyIndex + 1))
    /\ UNCHANGED <<nitromeGames, gamesJson, currentPlayer, infoPanel, players>>
    /\ UNCHANGED <<siteDoc, mainPc, loaderPc, online>>
    /\ UNCHANGED <<normVars, catalogVars, redirVars, pageVars, cacheVars, noticeVars, waitVars, patchVars>>

\* the offline and online events of the window, with the listeners of
\* initNetworkMonitoring: the first shows the indicator, the second hides it
ConnectivityChange ==
    /\ online' = ~online
    /\ offlineIndicator' = IF online THEN showOfflineMessage(World).offlineIndicator
                                     ELSE hideOfflineMessage(World).offlineIndicator
    /\ UNCHANGED <<siteDoc, mainPc, loaderPc, location, history, historyIndex,
                   errorShown, events>>
    /\ UNCHANGED <<normVars, catalogVars, redirVars, pageVars, navVars, storeVars, cacheVars, noticeVars, waitVars, patchVars>>

SessionNext ==
    \/ MainTranslationsResponse
    \/ MainGamesJsonResponse
    \/ LoaderTranslationsResponse
    \/ LoaderGamesJsonResponse
    \/ StartTimer
    \/ CallEnhancedLoadGame
    \/ Back
    \/ Forward
    \/ ConnectivityChange

-----------------------------------------------------------------------------
(* The enhancer's error notification: showErrorMessage *)

\* setTimeout(..., 8000), in seconds
AUTO_HIDE == 8

NoticeInit ==
    /\ errorContainer = "absent"
    /\ hideTimers = {}
    /\ noticeNow = 0
    /\ shownAt = -1
    /\ closedSince = FALSE

NoticeIdle == NoticeInit

\* showErrorMessage(errorType, data): the container is created if the page has
\* none (a new element is displayed), its content and close button are
\* written, and a timer is set that hides it after 8 seconds; a container
\* that is there keeps its style.display
ShowErrorMessage ==
    /\ Cardinality(hideTimers) < MaxErrors
    /\ noticeNow + AUTO_HIDE \notin hideTimers
    /\ errorContainer' = IF errorContainer = "absent" THEN "block" ELSE errorContainer
    /\ hideTimers' = hideTimers \cup {noticeNow + AUTO_HIDE}
    /\ shownAt' = noticeNow
    /\ closedSince' = FALSE
    /\ UNCHANGED noticeNow
    /\ UNCHANGED <<normVars, catalogVars, redirVars, pageVars, navVars, storeVars, cacheVars, sessVars, waitVars, patchVars>>

\* the visitor clicks the close button of the notification on display
ClickClose ==
    /\ errorContainer = "block"
    /\ errorContainer' = "none"
    /\ closedSince' = TRUE
    /\ UNCHANGED <<hideTimers, noticeNow, shownAt>>
    /\ UNCHANGED <<normVars, catalogVars, redirVars, pageVars, navVars, storeVars, cacheVars, sessVars, waitVars, patchVars>>

\* an auto-hide timer is due: its callback hides the container
HideTimerFires ==
    /\ noticeNow \in hideTimers
    /\ hideTimers' = hideTimers \ {noticeNow}
    /\ errorContainer' = "none"
    /\ UNCHANGED <<noticeNow, shownAt, closedSince>>
    /\ UNCHANGED <<normVars, catalogVars, redirVars, pageVars, navVars, storeVars, cacheVars, sessVars, waitVars, patchVars>>

\* a second passes; a timer that is due fires before time goes on
NoticeTick ==
    /\ noticeNow < MaxNoticeClock
    /\ noticeNow \notin hideTimers
    /\ noticeNow' = noticeNow + 1
    /\ UNCHANGED <<errorContainer, hideTimers, shownAt, closedSince>>
    /\ UNCHANGED <<normVars, catalogVars, redirVars, pageVars, navVars, storeVars, cacheVars, sessVars, waitVars, patchVars>>

NoticeNext ==
    \/ ShowErrorMessage
    \/ ClickClose
    \/ HideTimerFires
    \/ NoticeTick

-----------------------------------------------------------------------------
(* The loader's own player: loadWithRuffle and its wait for Ruffle *)

\* setInterval(..., 200) and setTimeout(..., 10000) of loadWithRuffle, in ms
POLL_INTERVAL == 200
RUFFLE_TIMEOUT == 10000

\* the part of the page loadWithRuffle writes
WaitState == [container |-> container, checkRuffle |-> checkRuffle,
              ruffleTimeout |-> ruffleTimeout]

\* loadWithRuffle(): with Ruffle there a player is created and loaded (or its
\* creation throws and the error is written); with only Ruffle's script in the
\* page the wait begins: an interval of 200 ms and a timeout of 10 s; without
\* either the embed element is used
loadWithRuffle(st, created) ==
    IF ruffleDefined
    THEN [st EXCEPT !.container = IF created THEN "player" ELSE "errorCreating"]
    ELSE IF ruffleScript
    THEN [st EXCEPT !.container = "loadingRuffle",
                    !.checkRuffle = waitNow + POLL_INTERVAL,
                    !.ruffleTimeout = waitNow + RUFFLE_TIMEOUT]
    ELSE [st EXCEPT !.container = "embed"]

SetWaitState(st) ==
    /\ container' = st.container
    /\ checkRuffle' = st.checkRuffle
    /\ ruffleTimeout' = st.ruffleTimeout

\* the main page has Ruffle's script before its own, so there Ruffle is defined
WaitInit ==
    /\ onMainPage \in BOOLEAN
    /\ ruffleDefined \in (IF onMainPage THEN {TRUE} ELSE BOOLEAN)
    /\ ruffleScript \in (IF onMainPage THEN {TRUE} ELSE BOOLEAN)
    /\ container = "empty"
    /\ checkRuffle = -1
    /\ ruffleTimeout = -1
    /\ waitNow = 0

WaitIdle ==
    /\ onMainPage = TRUE
    /\ ruffleDefined = TRUE
    /\ ruffleScript = TRUE
    /\ container = "empty"
    /\ checkRuffle = -1
    /\ ruffleTimeout = -1
    /\ waitNow = 0

\* loadGame(game) of the first module on a page that is not the main page
FallbackLoadGame ==
    /\ ~onMainPage
    /\ container = "empty"
    /\ \E created \in BOOLEAN : SetWaitState(loadWithRuffle(WaitState, created))
    /\ UNCHANGED <<onMainPage, ruffleDefined, ruffleScript, waitNow>>
    /\ UNCHANGED <<normVars, catalogVars, redirVars, pageVars, navVars, storeVars, cacheVars, sessVars, noticeVars, patchVars>>

\* Ruffle's script has run: window.RufflePlayer is defined
RuffleArrives ==
    /\ ~onMainPage
    /\ ruffleScript
    /\ ~ruffleDefined
    /\ ruffleDefined' = TRUE
    /\ UNCHANGED <<onMainPage, ruffleScript, container, checkRuffle, ruffleTimeout, waitNow>>
    /\ UNCHANGED <<normVars, catalogVars, redirVars, pageVars, navVars, storeVars, cacheVars, sessVars, noticeVars, patchVars>>

\* the callback of the interval: with Ruffle there the interval is cleared and
\* loadWithRuffle called again, else the interval goes on
IntervalFires ==
    /\ checkRuffle = waitNow
    /\ IF ruffleDefined
       THEN \E created \in BOOLEAN :
               SetWaitState(loadWithRuffle([WaitState EXCEPT !.checkRuffle = -1], created))
       ELSE /\ checkRuffle' = waitNow + POLL_INTERVAL
            /\ UNCHANGED <<container, ruffleTimeout>>
    /\ UNCHANGED <<onMainPage, ruffleDefined, ruffleScript, waitNow>>
    /\ UNCHANGED <<normVars, catalogVars, redirVars, pageVars, navVars, storeVars, cacheVars, sessVars, noticeVars, patchVars>>

\* the callback of the timeout: the interval is cleared, and the error is
\* written if Ruffle is still not there
TimeoutFires ==
    /\ ruffleTimeout = waitNow
    /\ ruffleTimeout' = -1
    /\ checkRuffle' = -1
    /\ container' = IF ruffleDefined THEN container ELSE "errorRuffle"
    /\ UNCHANGED <<onMainPage, ruffleDefined, ruffleScript, waitNow>>
    /\ UNCHANGED <<normVars, catalogVars, redirVars, pageVars, navVars, storeVars, cacheVars, sessVars, noticeVars, patchVars>>

\* the timers that are set
PendingTimers == {checkRuffle, ruffleTimeout} \ {-1}

\* time passes to the moment the next timer is due; a timer that is due fires
\* before time goes on, and two timers due at once fire in either order
WaitTick ==
    /\ PendingTimers # {}
    /\ waitNow \notin PendingTimers
    /\ waitNow' = CHOOSE t \in PendingTimers : \A u \in PendingTimers : t <= u
    /\ UNCHANGED <<onMainPage, ruffleDefined, ruffleScript, container, checkRuffle, ruffleTimeout>>
    /\ UNCHANGED <<normVars, catalogVars, redirVars, pageVars, navVars, storeVars, cacheVars, sessVars, noticeVars, patchVars>>

\* the main page's loadGame and what answers it
MainPageStep == onMainPage /\ NavNext

WaitNext ==
    \/ MainPageStep
    \/ FallbackLoadGame
    \/ RuffleArrives
    \/ IntervalFires
    \/ TimeoutFires
    \/ WaitTick

-----------------------------------------------------------------------------
(* The two patching modules in one page *)

PatchModules == {"redirector", "nitrome"}

\* the rule of the Nitrome patch
NitromeRule == Rule(StrNitromeCdn \o StrNitromePkg, StrXperia \o StrNitromePkg)

\* the Nitrome patch's test and replacement: a string that includes the
\* address has its first occurrence replaced
nitromeRewrite(url) ==
    IF url.type = "string" /\ Includes(url.str, NitromeRule.from)
    THEN StringValue(Replace(url.str, NitromeRule.from, NitromeRule.to))
    ELSE url

\* what a module's patches do with an address
Rewrite(module, url) ==
    IF module = "redirector" THEN redirectUrl(urlMappings, url) ELSE nitromeRewrite(url)

JsUndefined == ObjectValue("undefined", <<>>)
JsBoolean(b) == ObjectValue("boolean", IF b THEN <<"true">> ELSE <<"false">>)

\* the argument at place i of a call, undefined when the caller gave fewer
Argument(args, i) == IF i <= Len(args) THEN args[i] ELSE JsUndefined

\* XMLHttpRequest.prototype.open of either module: function(method, url,
\* async, user, password) calls the open it replaced with five arguments
patchedOpen(module, args) ==
    << Argument(args, 1), Rewrite(module, Argument(args, 2)),
       Argument(args, 3), Argument(args, 4), Argument(args, 5) >>

RECURSIVE openThrough(_, _)
\* xhr.open(...args) with the modules of chain installed: the module that ran
\* last is called first; what the browser's open is called with
openThrough(chain, args) ==
    IF chain = <<>> THEN args
    ELSE openThrough(SubSeq(chain, 1, Len(chain) - 1), patchedOpen(chain[Len(chain)], args))

\* the browser's open: called with two arguments the request is asynchronous;
\* called with three or more, the third is converted to a boolean, undefined
\* giving false
IsAsync(args) == IF Len(args) < 3 THEN TRUE ELSE args[3] = JsBoolean(TRUE)

\* the browser's open: an optional user or password that is absent or
\* undefined is null
Credential(args, i) == IF Argument(args, i) = JsUndefined THEN Null ELSE args[i].str

\* the tags a module's createElement defines the src property for
SrcTags(module) == IF module = "redirector" THEN {"script", "embed", "object"} ELSE {"script"}

\* a new element of the browser: src is the inherited accessor (owner "none")
NewElement(tag, chain) ==
    [tag |-> tag, chain |-> chain, threw |-> FALSE, owner |-> "none",
     src |-> Undefined, asked |-> Undefined]

\* Object.defineProperty(element, 'src', {set, get}) of a module: the property
\* is created not configurable, and defining it again with another setter
\* throws a TypeError
defineSrc(el, module) ==
    IF el.owner = "none" THEN [el EXCEPT !.owner = module]
    ELSE [el EXCEPT !.threw = TRUE]

\* document.createElement of a module around the element the createElement
\* it replaced has returned; an exception thrown there goes through
patchedCreateElement(module, el) ==
    IF el.threw THEN el
    ELSE IF el.tag \in SrcTags(module) THEN defineSrc(el, module)
    ELSE el

RECURSIVE createElementThrough(_, _, _)
\* document.createElement(tag) with the modules of chain installed: the
\* module that ran first is the innermost
createElementThrough(chain, tag, all) ==
    IF chain = <<>> THEN NewElement(tag, all)
    ELSE patchedCreateElement(chain[Len(chain)],
            createElementThrough(SubSeq(chain, 1, Len(chain) - 1), tag, all))

\* element.src = url: the setter of the element's own property, or the
\* inherited one
assignSrc(el, url) ==
    [el EXCEPT !.asked = url,
               !.src = IF el.owner = "none" THEN url
                       ELSE Rewrite(el.owner, StringValue(url)).str]

\* the addresses handed to the patched functions: one both modules rewrite,
\* one only the redirector rewrites, one neither does
PatchAddresses == { StrNitromeCdn \o StrNitromePkg, StrJogos \o StrFaq,
                    <<"g","a","m","e","s",".","j","s","o","n">> }

StrGet == <<"G", "E", "T">>

\* the ways xhr.open is called: with two arguments, with async given, with
\* all five
OpenCalls ==
    { <<StringValue(StrGet), StringValue(a)>> : a \in PatchAddresses }
    \cup { <<StringValue(StrGet), StringValue(a), JsBoolean(b)>> :
              a \in PatchAddresses, b \in BOOLEAN }
    \cup { <<StringValue(StrGet), StringValue(StrJogos \o StrFaq), JsBoolean(TRUE),
             StringValue(<<"u">>), StringValue(<<"p">>)>> }

PatchInit ==
    /\ patchChain = <<>>
    /\ createdElements = <<>>
    /\ opens = <<>>

\* a patching module runs: its open, fetch and createElement replace the ones
\* in place
InstallModule ==
    /\ \E module \in PatchModules :
          /\ \A i \in DOMAIN patchChain : patchChain[i] # module
          /\ patchChain' = Append(patchChain, module)
    /\ UNCHANGED <<createdElements, opens>>
    /\ UNCHANGED <<normVars, catalogVars, redirVars, pageVars, navVars, storeVars, cacheVars, sessVars, noticeVars, waitVars>>

\* a script of the page calls document.createElement(tag)
PageCreatesElement ==
    /\ Len(createdElements) < MaxCreated
    /\ \E tag \in LoadableTags :
          createdElements' = Append(createdElements, createElementThrough(patchChain, tag, patchChain))
    /\ UNCHANGED <<patchChain, opens>>
    /\ UNCHANGED <<normVars, catalogVars, redirVars, pageVars, navVars, storeVars, cacheVars, sessVars, noticeVars, waitVars>>

\* a script of the page assigns the src of an element it has created
PageAssignsSrc ==
    /\ \E i \in DOMAIN createdElements, a \in PatchAddresses :
          /\ ~createdElements[i].threw
          /\ createdElements[i].asked = Undefined
          /\ createdElements' = [createdElements EXCEPT ![i] = assignSrc(createdElements[i], a)]
    /\ UNCHANGED <<patchChain, opens>>
    /\ UNCHANGED <<normVars, catalogVars, redirVars, pageVars, navVars, storeVars, cacheVars, sessVars, noticeVars, waitVars>>

\* a script of the page calls xhr.open
PageOpensXhr ==
    /\ Len(opens) < MaxOpens
    /\ \E args \in OpenCalls :
          opens' = Append(opens, [chain |-> patchChain, asked |-> args,
                                  seen |-> openThrough(patchChain, args)])
    /\ UNCHANGED <<patchChain, createdElements>>
    /\ UNCHANGED <<normVars, catalogVars, redirVars, pageVars, navVars, storeVars, cacheVars, sessVars, noticeVars, waitVars>>

PatchNext ==
    \/ InstallModule
    \/ PageCreatesElement
    \/ PageAssignsSrc
    \/ PageOpensXhr

-----------------------------------------------------------------------------
(* Specifications *)

InitNormalize == NormInit /\ CatalogIdle /\ RedirIdle /\ PageInit /\ NavInit /\ StoreInit /\ CacheIdle /\ SessionIdle /\ NoticeIdle /\ WaitIdle /\ PatchInit
SpecNormalize == InitNormalize /\ [][NormNext]_vars

InitCatalog == CatalogInit /\ NormIdle /\ RedirIdle /\ PageInit /\ NavInit /\ StoreInit /\ CacheIdle /\ SessionIdle /\ NoticeIdle /\ WaitIdle /\ PatchInit
SpecCatalog == InitCatalog /\ [][CatalogNext]_vars

\* the redirector's pure function under every table and address tried
InitRedirect == RedirInit /\ NormIdle /\ CatalogIdle /\ PageInit /\ NavInit /\ StoreInit /\ CacheIdle /\ SessionIdle /\ NoticeIdle /\ WaitIdle /\ PatchInit
SpecRedirect == InitRedirect /\ [][RedirNext]_vars

\* the page's network calls, before and after the redirector is installed
InitNetwork == PageInit /\ NormIdle /\ CatalogIdle /\ RedirIdle /\ NavInit /\ StoreInit /\ CacheIdle /\ SessionIdle /\ NoticeIdle /\ WaitIdle /\ PatchInit
SpecNetwork == InitNetwork /\ [][NetNext]_vars

\* the page's loadable elements, before and after the redirector is installed
InitElements == PageInit /\ NormIdle /\ CatalogIdle /\ RedirIdle /\ NavInit /\ StoreInit /\ CacheIdle /\ SessionIdle /\ NoticeIdle /\ WaitIdle /\ PatchInit
SpecElements == InitElements /\ [][ElementNext]_vars

\* the main page script: calls of loadGame and their completions in any order
InitNavigation == NavInit /\ NormIdle /\ CatalogIdle /\ RedirIdle /\ PageInit /\ StoreInit /\ CacheIdle /\ SessionIdle /\ NoticeIdle /\ WaitIdle /\ PatchInit
SpecNavigation == InitNavigation /\ [][NavNext]_vars

\* the recently played list under sequences of additions
InitStore == StoreInit /\ NormIdle /\ CatalogIdle /\ RedirIdle /\ PageInit /\ NavInit /\ CacheIdle /\ SessionIdle /\ NoticeIdle /\ WaitIdle /\ PatchInit
SpecStore == InitStore /\ [][StoreNext]_vars

\* the cache of the catalog: what a visit finds stored, writes and reads
InitCache == CacheInit /\ NormIdle /\ CatalogIdle /\ RedirIdle /\ PageInit /\ NavInit /\ StoreInit /\ SessionIdle /\ NoticeIdle /\ WaitIdle /\ PatchInit
SpecCache == InitCache /\ [][CacheNext]_vars

\* the error notification: calls of showErrorMessage, clicks on its close
\* button and its auto-hide timers as time passes
InitNotice == NoticeInit /\ NormIdle /\ CatalogIdle /\ RedirIdle /\ PageInit /\ NavInit /\ StoreInit /\ CacheIdle /\ SessionIdle /\ WaitIdle /\ PatchInit
SpecNotice == InitNotice /\ [][NoticeNext]_vars

\* a load on the main page or on another page, with time passing: the timers
\* the code has set fire when they are due; whether and when the HEAD request
\* is answered and Ruffle's script runs is up to the network
InitWait == WaitInit /\ NormIdle /\ CatalogIdle /\ RedirIdle /\ PageInit /\ NavInit /\ StoreInit /\ CacheIdle /\ SessionIdle /\ NoticeIdle /\ PatchInit
SpecWait == /\ InitWait /\ [][WaitNext]_vars
            /\ WF_vars(WaitTick) /\ WF_vars(IntervalFires) /\ WF_vars(TimeoutFires)

\* the two patching modules in one page, run in either order, and calls of
\* createElement and xhr.open before, between and after
InitPatches == PatchInit /\ NormIdle /\ CatalogIdle /\ RedirIdle /\ PageInit /\ NavInit /\ StoreInit /\ CacheIdle /\ SessionIdle /\ NoticeIdle /\ WaitIdle
SpecPatches == InitPatches /\ [][PatchNext]_vars

\* a visit of the page: the start of both scripts, calls of the enhanced
\* loadGame, steps in the history and changes of connectivity, in any order
InitSession == SessionInit /\ NormIdle /\ CatalogIdle /\ RedirIdle /\ PageInit /\ NavInit /\ StoreInit /\ CacheIdle /\ NoticeIdle /\ WaitIdle /\ PatchInit
SpecSession == InitSession /\ [][SessionNext]_vars

-----------------------------------------------------------------------------
(* What the claims about the catalog speak of *)

\* the games of every array of the document
ArrayGames(doc) ==
    Range(doc.games) \cup
    UNION {Range(doc.members[i].games) : i \in {j \in DOMAIN doc.members : doc.members[j].isArray}}

\* the entries of an object keyed by id: each value with its key as id, unless
\* it carries an id of its own
KeyedGames(doc) ==
    IF doc.top = "object" /\ ~HasMember(doc, StrNitromeGames)
    THEN {IF doc.members[i].games[1].id # Undefined THEN doc.members[i].games[1]
          ELSE [doc.members[i].games[1] EXCEPT !.id = doc.members[i].key] :
            i \in {j \in DOMAIN doc.members : ~doc.members[j].isArray}}
    ELSE {}

\* the catalog's entries: the games of the document that have an id
CatalogEntries(doc) == {e \in ArrayGames(doc) \cup KeyedGames(doc) : Truthy(e.id)}

\* every entry sits in an array
ArrayForm(doc) == doc.top = "array" \/ \A i \in DOMAIN doc.members : doc.members[i].isArray

\* no two entries have ids equal ignoring case
DistinctIds(doc) ==
    \A e1, e2 \in CatalogEntries(doc) :
        e1 # e2 => toLowerCase(e1.id) # toLowerCase(e2.id)

\* a query answered with the catalog loaded
Resolved(ops) == lastCall.op \in ops /\ ~gamesData.isNull

\* the key is e's id as stored or lower-cased
IsIdOf(key, e) == Truthy(e.id) /\ key \in {e.id, toLowerCase(e.id)}

\* C1 as stated: for every catalog, also one with ids that differ only in case,
\* and every entry e of it, resolving e.id and lowercase(e.id) returns exactly e.
C1_EveryEntryResolvesToItself ==
    Resolved({"loadGame", "getGameUrl"}) =>
        \A e \in CatalogEntries(jsonData) :
            IsIdOf(lastCall.key, e) => lastCall.game = e

\* C1 as amended: an entry that the lookup table holds under its lower-cased id
\* is what its id and its lower-cased id resolve to; and in a catalog given as
\* arrays whose ids are pairwise distinct ignoring case that is every entry.
C1_StoredEntryResolvesToItself ==
    Resolved({"loadGame", "getGameUrl"}) =>
        /\ \A i \in DOMAIN gamesData.entries :
             LET g == gamesData.entries[i].game
             IN  (gamesData.entries[i].key = toLowerCase(g.id) /\ IsIdOf(lastCall.key, g))
                 => (lastCall.game = g /\ lastCall.ret \in {"true", "url"})
        /\ (ArrayForm(jsonData) /\ DistinctIds(jsonData)) =>
             \A e \in CatalogEntries(jsonData) :
                 IsIdOf(lastCall.key, e)
                 => (lastCall.game = e /\ lastCall.ret \in {"true", "url"})

\* C1's case: a catalog of two entries with distinct ids, one of them asked for
\* by its lower-cased id, which is not the id as stored
C1_Witness ==
    /\ Resolved({"loadGame"})
    /\ ArrayForm(jsonData) /\ DistinctIds(jsonData)
    /\ Cardinality(CatalogEntries(jsonData)) = 2
    /\ \E e \in CatalogEntries(jsonData) :
         /\ lastCall.key = toLowerCase(e.id) /\ lastCall.key # e.id
         /\ lastCall.game = e

\* the key is no entry's id ignoring case, and no entry's normalized name,
\* whether the key is taken lower-cased or normalized
MatchesNothing(key, doc) ==
    \A e \in ArrayGames(doc) \cup KeyedGames(doc) :
        /\ Truthy(e.id) => toLowerCase(e.id) # toLowerCase(key)
        /\ Truthy(e.name) => makeUrlFriendly(e.name) \notin {toLowerCase(key), makeUrlFriendly(key)}

\* C2: a key that equals no entry's id ignoring case and no entry's normalized
\* name resolves to NotFound (null, false), and what resolution returns is
\* always an entry of the catalog.
C2_UnknownKeyIsNotFound ==
    Resolved({"loadGame", "getGameUrl"}) =>
        /\ MatchesNothing(lastCall.key, jsonData)
           => (lastCall.game = NullGame /\ lastCall.ret \in {"false", "null"})
        /\ lastCall.game # NullGame => lastCall.game \in CatalogEntries(jsonData)

\* C4: when the key is no entry's id and normalize(key) = normalize(e.name) for
\* an entry e, resolution (the loader's own, or the slug fallback) finds an entry.
C4_NameMatchNormalizesBothSides ==
    Resolved({"loadGame", "findGameBySlug"}) =>
        ((/\ \A e \in CatalogEntries(jsonData) : toLowerCase(e.id) # toLowerCase(lastCall.key)
          /\ \E e \in CatalogEntries(jsonData) :
               /\ Truthy(e.name)
               /\ makeUrlFriendly(lastCall.key) = makeUrlFriendly(e.name))
         => lastCall.game # NullGame)

\* C5: a key equal to some entry's id ignoring case resolves to an entry with
\* that id, whatever the names of the other entries and whatever the shape of
\* the document.
C5_IdMatchBeforeNameMatch ==
    Resolved({"loadGame", "getGameUrl"}) =>
        ((\E e \in CatalogEntries(jsonData) : toLowerCase(e.id) = toLowerCase(lastCall.key))
         => /\ lastCall.game \in CatalogEntries(jsonData)
            /\ toLowerCase(lastCall.game.id) = toLowerCase(lastCall.key))

-----------------------------------------------------------------------------
(* What the claims about the normalizers speak of *)

\* '' or nothing but white space
IsBlank(s) == s # Undefined /\ \A i \in DOMAIN s : IsSpace(s[i])

\* C3: the slug normalizers are idempotent, makeUrlFriendly and createSlug
\* alike: applied to its own result each returns that result; and each maps
\* the empty string and a string of white space to the empty string.
C3_NormalizersIdempotent ==
    /\ Len(normOut) = 2 => normOut[2] = normOut[1]
    /\ (Len(normOut) >= 1 /\ IsBlank(normIn)) => normOut[1] = <<>>

\* C3's case: makeUrlFriendly applied twice to a string that it changes and
\* does not empty
C3_Witness ==
    /\ normFn = "makeUrlFriendly"
    /\ Len(normOut) = 2
    /\ normOut[1] \notin {normIn, <<>>}

-----------------------------------------------------------------------------
(* Claims about the redirector's function *)

Called == lastRedirect # NoRedirect /\ lastRedirect.arg.type = "string"

\* the address a call was given, and the address it returned
ArgStr == lastRedirect.arg.str
OutStr == lastRedirect.out.str

\* the rules whose from occurs in the address of the call
MatchingRules == { i \in DOMAIN urlMappings : Includes(ArgStr, urlMappings[i].from) }

\* the earliest declared of them
Earliest == CHOOSE i \in MatchingRules : \A j \in MatchingRules : i <= j

\* where the from of rule i first occurs in the address of the call
FirstAt(i) ==
    CHOOSE k \in 0..Len(ArgStr) :
        /\ OccursAt(ArgStr, urlMappings[i].from, k)
        /\ \A l \in 0..(k-1) : ~OccursAt(ArgStr, urlMappings[i].from, l)

\* what stands before and after that occurrence
PartBefore(i) == SubSeq(ArgStr, 1, FirstAt(i))
PartAfter(i)  == SubSeq(ArgStr, FirstAt(i) + Len(urlMappings[i].from) + 1, Len(ArgStr))

HasDollar(t) == \E k \in DOMAIN t : t[k] = "$"

\* C6: with the default rule table, an address that contains the from of a
\* rule is returned with the first occurrence of the from of the earliest such
\* rule replaced by that rule's to and the rest kept
\* ("https://jogos.ipv7.pt/faq.swf" gives
\* "https://cdn.xperia.pt/laserquest/faq.swf"); an address that contains no
\* rule's from, and a value that is not a string, is returned unchanged.
C6_DefaultTableRedirects ==
    (urlMappings = DefaultMappings /\ lastRedirect # NoRedirect) =>
        /\ lastRedirect.arg.type # "string" => lastRedirect.out = lastRedirect.arg
        /\ lastRedirect.arg.type = "string" =>
            /\ lastRedirect.out.type = "string"
            /\ MatchingRules = {} => OutStr = ArgStr
            /\ MatchingRules # {} =>
                 OutStr = PartBefore(Earliest) \o urlMappings[Earliest].to \o PartAfter(Earliest)
            /\ ArgStr = StrJogos \o StrFaq => OutStr = StrLaserquest \o StrFaq

\* C6 witness: the default table has rewritten an address that holds a rule's
\* from between a prefix and a query
C6_Witness ==
    /\ urlMappings = DefaultMappings
    /\ Called
    /\ MatchingRules # {}
    /\ PartBefore(Earliest) # <<>>
    /\ PartAfter(Earliest) # <<>>
    /\ OutStr # ArgStr

\* C7 as stated: whenever the froms of two rules both occur in the address,
\* only the earlier rule is applied, once, and the from of the later rule
\* still occurs in the result.
C7_LaterRuleFromLeftInPlace ==
    (Called /\ Cardinality(MatchingRules) >= 2) =>
        /\ Len(OutStr) >= Len(PartBefore(Earliest)) + Len(PartAfter(Earliest))
        /\ SubSeq(OutStr, 1, Len(PartBefore(Earliest))) = PartBefore(Earliest)
        /\ SubSeq(OutStr, Len(OutStr) - Len(PartAfter(Earliest)) + 1, Len(OutStr)) = PartAfter(Earliest)
        /\ ~HasDollar(urlMappings[Earliest].to) =>
              OutStr = PartBefore(Earliest) \o urlMappings[Earliest].to \o PartAfter(Earliest)
        /\ \A j \in MatchingRules \ {Earliest} : Includes(OutStr, urlMappings[j].from)

\* C7 amended: whenever the froms of two rules both occur in the address, only
\* the earlier rule is applied, once, to the first occurrence of its from:
\* what stands before and after that occurrence is returned as it was, so no
\* second rewrite happens, and every occurrence of the later rule's from that
\* does not overlap the rewritten occurrence is still in its place.
C7_OnlyEarlierRuleApplied ==
    (Called /\ Cardinality(MatchingRules) >= 2) =>
        /\ Len(OutStr) >= Len(PartBefore(Earliest)) + Len(PartAfter(Earliest))
        /\ SubSeq(OutStr, 1, Len(PartBefore(Earliest))) = PartBefore(Earliest)
        /\ SubSeq(OutStr, Len(OutStr) - Len(PartAfter(Earliest)) + 1, Len(OutStr)) = PartAfter(Earliest)
        /\ ~HasDollar(urlMappings[Earliest].to) =>
              OutStr = PartBefore(Earliest) \o urlMappings[Earliest].to \o PartAfter(Earliest)
        /\ \A j \in MatchingRules \ {Earliest} :
              /\ \A k \in 0..Len(PartBefore(Earliest)) :
                    OccursAt(PartBefore(Earliest), urlMappings[j].from, k)
                        => OccursAt(OutStr, urlMappings[j].from, k)
              /\ \A k \in 0..Len(PartAfter(Earliest)) :
                    OccursAt(PartAfter(Earliest), urlMappings[j].from, k)
                        => OccursAt(OutStr, urlMappings[j].from,
                                    Len(OutStr) - Len(PartAfter(Earliest)) + k)

\* C7 witness: two rules matched, the earlier one rewrote the address, and the
\* later rule's from, which stood clear of the rewritten part, still occurs in
\* the result although the later rule would have changed it
C7_Witness ==
    /\ Called
    /\ Len(urlMappings) = 2
    /\ MatchingRules = {1, 2}
    /\ OutStr # ArgStr
    /\ urlMappings[2].from # <<>>
    /\ Includes(PartAfter(1), urlMappings[2].from)
    /\ Includes(OutStr, urlMappings[2].from)
    /\ Replace(OutStr, urlMappings[2].from, urlMappings[2].to) # OutStr

-----------------------------------------------------------------------------
(* Claims about the interception of network calls and element addresses *)

\* C8: every call of open or fetch made after the redirector is installed
\* reaches the original open or fetch with the rewritten address, whether the
\* address is given as a string, a Request or a URL object.
C8_EveryNetworkCallRewritten ==
    \A i \in DOMAIN netLog :
        netLog[i].patched =>
            netLog[i].seen = redirectString(urlMappings, netLog[i].asked)

\* C9: for script, embed and object elements, existing or created, every
\* address given to the element after startup, by the property or by
\* setAttribute, is the rewritten address when the loader sees it.
C9_EveryElementAddressRewritten ==
    \A i \in DOMAIN elements :
        elements[i].late =>
            elements[i].attr = redirectString(urlMappings, elements[i].asked)

-----------------------------------------------------------------------------
(* Claims about navigation in the main page script *)

\* C10: once a call of loadGame has passed the lookup, currentGame is the id
\* of the latest such call, whichever of the calls have completed and in
\* whatever order: a completion of an earlier call never sets it back.
C10_CurrentGameIsLatestCall ==
    loads # <<>> => currentGame = loads[Len(loads)].id

\* C10 witness: loadGame(A) then loadGame(B) were called, B's check completed
\* first and A's after it, and currentGame is B
C10_Witness ==
    /\ Len(loads) = 2
    /\ loads[1].id # loads[2].id
    /\ loads[2].finished = 1
    /\ loads[1].finished = 2
    /\ rufflePlayer = GamePlayer(loads[1].id)
    /\ currentGame = loads[2].id

\* C11: a completion that belongs to a call of loadGame that a later call has
\* superseded changes neither the displayed player nor the information panel:
\* once the latest call has run to its end, a game player that is displayed is
\* the player of currentGame and so is the information panel.
C11_DisplayedGameIsCurrentGame ==
    (loads # <<>> /\ loads[Len(loads)].pc = "done" /\ rufflePlayer.kind = "player") =>
        /\ rufflePlayer.game = currentGame
        /\ infoPanel = currentGame

-----------------------------------------------------------------------------
(* Claims about the recently played list *)

\* the list a reader of the store finds
RecentList == StoredList(recentStore)

\* the call that last added an id
LastAdded(id) == CHOOSE i \in DOMAIN recentLog :
                    recentLog[i] = id /\ \A j \in (i+1)..Len(recentLog) : recentLog[j] # id

\* the distinct ids added after the last addition of id
AddedSince(id) == { recentLog[j] : j \in (LastAdded(id) + 1)..Len(recentLog) }

\* C12: starting from an empty store, after any sequence of calls of
\* addToRecentlyPlayed the stored list has no repeated id and at most 10
\* entries, the id added last is first and the ids follow in the order of
\* their last addition, newest first; the list holds exactly the 10 ids added
\* most recently, so an 11th distinct id drops the oldest and an id added
\* again moves to the front.
C12_RecentListIsTenNewest ==
    /\ \A i, j \in DOMAIN RecentList : i # j => RecentList[i] # RecentList[j]
    /\ Len(RecentList) <= 10
    /\ recentLog # <<>> => (RecentList # <<>> /\ RecentList[1] = recentLog[Len(recentLog)])
    /\ \A i, j \in DOMAIN RecentList :
          i < j => LastAdded(RecentList[i]) > LastAdded(RecentList[j])
    /\ \A i \in DOMAIN RecentList : RecentList[i] \in Added
    /\ \A id \in Added :
          (\E i \in DOMAIN RecentList : RecentList[i] = id) <=> Cardinality(AddedSince(id)) < 10

\* C12 witness: eleven distinct ids were added, so that the first is dropped,
\* and the last call added again an id the full list held further back
C12_Witness ==
    /\ Cardinality(Added) >= 11
    /\ Len(RecentList) = 10
    /\ \A i \in DOMAIN RecentList : RecentList[i] # IdPool[1]
    /\ Len(recentLog) >= 2
    /\ recentLog[Len(recentLog)] = recentLog[Len(recentLog) - 2]
    /\ RecentList[1] = recentLog[Len(recentLog)]

-----------------------------------------------------------------------------
(* Claims about the cache of the catalog *)

\* a text that is a time as cacheGamesData writes it: digits and nothing else
IsTimeText(t) == t # Null /\ t # <<>> /\ \A i \in DOMAIN t : t[i] \in Digits

\* a text that is a number in no reading: it holds no digit
HasNoNumber(t) == t # Null /\ \A i \in DOMAIN t : t[i] \notin Digits

\* C13: getCachedGamesData returns null whenever the stored timestamp is
\* missing, is no valid number (it holds no digit) or is a time more than 24
\* hours before the current time, and returns the stored catalog only when a
\* timestamp that is a number, at most 24 hours old, is stored together with
\* data.
C13_CacheReadHonoursTimestamp ==
    lastRead.called =>
        /\ (\/ lastRead.timestamp = Null
            \/ HasNoNumber(lastRead.timestamp)
            \/ (IsTimeText(lastRead.timestamp)
                /\ lastRead.now - DecimalValue(lastRead.timestamp) > 24))
              => lastRead.result = NullTable
        /\ lastRead.result # NullTable =>
              /\ lastRead.timestamp # Null
              /\ ~HasNoNumber(lastRead.timestamp)
              /\ IsTimeText(lastRead.timestamp)
                    => lastRead.now - DecimalValue(lastRead.timestamp) <= 24
              /\ lastRead.data.kind = "json"
              /\ lastRead.result = lastRead.data.table

-----------------------------------------------------------------------------
(* Duplicate ids in the catalog document *)

\* the entries of the document's arrays that have an id
ArrayEntries(doc) == {e \in ArrayGames(doc) : Truthy(e.id)}

\* the entry of the arrays that comes last in the source among those whose id
\* is the key ignoring case
LatestWithKey(doc, key) ==
    CHOOSE e \in ArrayEntries(doc) :
        /\ toLowerCase(e.id) = key
        /\ \A o \in ArrayEntries(doc) : toLowerCase(o.id) = key => o.uid <= e.uid

\* C15: when two entries of the document's arrays have ids equal ignoring
\* case, the lookup table holds under that id the one that comes later in the
\* source JSON, whatever keys the two arrays have and wherever nitromeGames
\* sits among them.
C15_LaterDuplicateWins ==
    ~gamesData.isNull =>
        \A e1, e2 \in ArrayEntries(jsonData) :
            (e1.uid < e2.uid /\ toLowerCase(e1.id) = toLowerCase(e2.id)) =>
                GetProperty(gamesData.entries, toLowerCase(e1.id))
                    = LatestWithKey(jsonData, toLowerCase(e1.id))

\* C16: after a successful load the lookup table holds exactly the entries of
\* the document's arrays that have an id, one per lower-cased id, each under
\* the key lowercase(id), and no other key: no entry made from a collection
\* key, and no entry whose id differs from its key ignoring case.
C16_TableIsExactlyArrayEntries ==
    ~gamesData.isNull =>
        /\ \A i \in DOMAIN gamesData.entries :
              /\ gamesData.entries[i].game \in ArrayEntries(jsonData)
              /\ gamesData.entries[i].key = toLowerCase(gamesData.entries[i].game.id)
        /\ \A e \in ArrayEntries(jsonData) :
              OwnIndex(gamesData.entries, toLowerCase(e.id)) # 0

-----------------------------------------------------------------------------
(* What the claims about a visit of the page speak of *)

\* the address the page was opened at
StartUrl == history[1].url

\* both scripts have run their start to its end, with both catalogs fetched
StartComplete ==
    /\ mainPc = "done"
    /\ loaderPc = "done"
    /\ ~gamesData.isNull
    /\ nitromeGames = MainIds(siteDoc)

\* the entry the first part of the path resolves to
PathEntry(url) == findGameByUrlName(gamesData, getGameNameFromUrl(url.pathname))

\* the main script's loadGame has been asked for the game and has started to
\* load it (the HEAD request for its path is sent)
AskedToLoad(id) == \E i \in DOMAIN loads : loads[i].id = id

\* C14: on page load at /<k>, where k resolves to entry e of the catalog, the
\* player is asked to load e, in whatever order the main script's fetches, the
\* loader's fetches and the start timer complete: once all of them have
\* completed, e has been asked for.
C14_PageLoadLoadsEntry ==
    (/\ StartComplete
     /\ events = <<>>
     /\ PathEntry(StartUrl) # NullGame
     /\ PathEntry(StartUrl).id \in nitromeGames) =>
        AskedToLoad(PathEntry(StartUrl).id)

\* the value of the id parameter of an address, Null without one
IdParam(url) == ParamsGet(URLSearchParams(url.search), StrId)

\* the entries of the loader's table whose id is the id parameter ignoring case
IdEntries(url) ==
    {gamesData.entries[i].game : i \in
        {j \in DOMAIN gamesData.entries :
            /\ IdParam(url) # Null
            /\ Truthy(gamesData.entries[j].game.id)
            /\ toLowerCase(gamesData.entries[j].game.id) = toLowerCase(IdParam(url))}}

\* the page has come to entry k of the history by being opened there or by a
\* step back or forward, and nothing has happened since
ArrivedAt(k) ==
    \/ events = <<>> /\ k = 1
    \/ /\ events # <<>>
       /\ events[Len(events)].kind \in {"back", "forward"}
       /\ events[Len(events)].index = k

\* C17: the id parameter is a working fallback: when the page is opened at, or
\* comes by a history step to, an address whose first path segment resolves to
\* no entry and whose id parameter is a catalog id ignoring case, the entry
\* with that id is loaded.
C17_IdParameterIsFallback ==
    \A k \in DOMAIN history :
        (/\ StartComplete
         /\ online
         /\ ArrivedAt(k)
         /\ PathEntry(history[k].url) = NullGame) =>
            \A e \in IdEntries(history[k].url) :
                e.id \in nitromeGames => currentGame = e.id

LastEvent == events[Len(events)]

\* the last event is a call of GameUrlLoader.loadGame that returned true
Succeeded == events # <<>> /\ LastEvent.kind = "loadGame" /\ LastEvent.result

\* the entry that call loaded: the one its argument resolves to, or else the
\* one found by the argument's slug
LoadedEntry ==
    IF findGameByUrlName(gamesData, LastEvent.gameId) # NullGame
    THEN findGameByUrlName(gamesData, LastEvent.gameId)
    ELSE findGameByUrlName(gamesData, findGameBySlug(getGames, LastEvent.gameId).id)

\* the address when the last event began
AddressBefore == history[LastEvent.index].url

\* the query parameters of an address other than id, in order
OtherParams(url) == SelectSeq(URLSearchParams(url.search), LAMBDA p : p.name # StrId)

\* C18: after GameUrlLoader.loadGame has succeeded for entry e the address is
\* origin/<createSlug(e.name or e.id)> with the query parameter id equal to
\* e.id as stored, every other query parameter of the address before is kept,
\* and the page has not been loaded again: the new address is a further entry
\* of the history and the scripts keep their state.
C18_AddressAfterLoadGame ==
    Succeeded =>
        /\ location.pathname = <<"/">> \o createSlug(NameOrId(LoadedEntry))
        /\ IdParam(location) = LoadedEntry.id
        /\ OtherParams(location) = OtherParams(AddressBefore)
        /\ historyIndex > LastEvent.index
        /\ history[historyIndex].url = location
        /\ loaderPc = "done" /\ gamesData = loadGamesData(siteDoc)

\* the visit so far: game A, then another game B, each loaded by a call of
\* GameUrlLoader.loadGame that returned true with the network and both
\* catalogs there, then one step back
LoadedTwoThenBack ==
    /\ StartComplete
    /\ online
    /\ Len(events) = 3
    /\ \A i \in {1, 2} : /\ events[i].kind = "loadGame"
                        /\ events[i].result
                        /\ events[i].connected
                        /\ events[i].gameId \in nitromeGames
    /\ events[1].gameId # events[2].gameId
    /\ events[3].kind = "back"
    /\ events[3].connected

\* C19: after A and then B have been loaded through GameUrlLoader.loadGame, a
\* step back loads A, and handling the history event pushes no entry: the
\* history has the entries it had and the current one is the one stepped to,
\* so that a step forward is still possible.
C19_BackLoadsPreviousGame ==
    LoadedTwoThenBack =>
        /\ currentGame = events[1].gameId
        /\ Len(history) = events[3].length
        /\ historyIndex = events[3].index

\* the key of the loader's table is one of its own
InTable(gameId) == OwnIndex(gamesData.entries, toLowerCase(gameId)) # 0

\* C20: once the catalog has been fetched with the network there, the store
\* holds the serialized catalog and its timestamp, and a call of
\* GameUrlLoader.loadGame for a catalog id made without the network within 24
\* hours goes on to load the game and does not fail with the offline error.
C20_OfflineLoadUsesCache ==
    ~gamesData.isNull =>
        /\ cacheData = StringifyTable(gamesData)
        /\ cacheTimestamp # Null
        /\ \A i \in DOMAIN events :
              (/\ events[i].kind = "loadGame"
               /\ ~events[i].connected
               /\ InTable(events[i].gameId)) => events[i].result

-----------------------------------------------------------------------------
(* What a successful load leaves behind *)

\* the games the page's ready state names: the current game, the games of the
\* history entries pushed and the games of the recently played list
ReadyNamed ==
    ({currentGame} \cup {history[i].state : i \in DOMAIN history}
                   \cup Range(StoredList(recentStore))) \ {Null}

\* the main script's loadGame has created and loaded a player for the game
PlayerCreated(id) == \E p \in DOMAIN players : players[p].game = id

\* C21: currentGame, the browser's history and the recently played list name
\* a game only after its asset check has passed and its player has been
\* created and loaded; an attempt that ends in an error leaves them alone.
C21_ReadyEffectsAfterSuccess ==
    \A id \in ReadyNamed : PlayerCreated(id)

-----------------------------------------------------------------------------
(* Keys that resolve to no entry *)

\* the page shows a message that the game was not found: the enhancer's
\* notification, or the main script's message in the player container
NotFoundShown == errorShown = "gameNotFound" \/ rufflePlayer.kind = "gameNotFound"

\* the loader's start has run to its end with the catalog there, the page was
\* opened at a path that names a game, and no entry of the catalog is found
\* for that name
OpenedAtUnknownGame ==
    /\ loaderPc = "done"
    /\ ~gamesData.isNull
    /\ events = <<>>
    /\ Truthy(getGameNameFromUrl(StartUrl.pathname))
    /\ PathEntry(StartUrl) = NullGame

\* the last event is a call of GameUrlLoader.loadGame, made with the network
\* there, for a key that neither the resolver nor the slug search finds
CalledWithUnknownKey ==
    /\ events # <<>>
    /\ LastEvent.kind = "loadGame"
    /\ LastEvent.connected
    /\ ~gamesData.isNull
    /\ findGameByUrlName(gamesData, LastEvent.gameId) = NullGame
    /\ findGameBySlug(getGames, LastEvent.gameId) = NullGame

\* C22: every navigation that resolves to no entry shows a not-found message
\* to the visitor: the page load from the address as well as an explicit call
\* of GameUrlLoader.loadGame.
C22_NotFoundIsShown ==
    (OpenedAtUnknownGame \/ CalledWithUnknownKey) => NotFoundShown

-----------------------------------------------------------------------------
(* The error notification on display *)

\* C23: each call of showErrorMessage leaves the notification visible until
\* the visitor dismisses it or 8 seconds have passed since that call, also
\* when it is not the first call.
C23_NoticeVisibleForEightSeconds ==
    (/\ shownAt >= 0
     /\ ~closedSince
     /\ noticeNow < shownAt + AUTO_HIDE) => errorContainer = "block"

-----------------------------------------------------------------------------
(* The end of a load attempt *)

\* the loader's container shows a player (or the embed element) or an error
FallbackEnded == container \in {"player", "embed", "errorCreating", "errorRuffle"}

\* C24: every load attempt eventually shows its player or an error: a call of
\* the main page's loadGame that waits for its HEAD request comes to its end,
\* and the loader's wait for Ruffle ends with the player or the error.
C24_EveryLoadAttemptEnds ==
    /\ \A i \in 1..MaxLoads :
          (i \in DOMAIN loads /\ loads[i].pc = "check")
              ~> (i \in DOMAIN loads /\ loads[i].pc = "done")
    /\ (container = "loadingRuffle") ~> FallbackEnded

-----------------------------------------------------------------------------
(* The offline indicator *)

\* the visitor sees the offline indicator
IndicatorVisible == \E i \in DOMAIN offlineIndicator : offlineIndicator[i] = "block"

\* C25: the offline indicator is visible exactly when the latest connectivity
\* signal says offline, and the page has at most one indicator element.
C25_IndicatorFollowsConnectivity ==
    /\ IndicatorVisible <=> ~online
    /\ Len(offlineIndicator) <= 1

\* a game has been loaded, the network has gone and GameUrlLoader.loadGame was
\* called without it: the offline event and the call have both shown the
\* indicator, and the page has the one element on display
C25_Witness ==
    /\ events # <<>>
    /\ ~LastEvent.connected
    /\ ~online
    /\ offlineIndicator = <<"block">>
    /\ Len(history) > 1

-----------------------------------------------------------------------------
(* The canonical address of an entry *)

\* the path of the address getEnhancedGameUrl and updateBrowserUrl write for a
\* game: / and the slug of its name, or of its id when it has no name
CanonicalPath(game) == <<"/">> \o createSlug(NameOrId(game))

\* the entry loadGameFromUrl finds when the page is opened at a path
OpenedAt(pathname) == findGameByUrlName(gamesData, getGameNameFromUrl(pathname))

\* C26: the canonical address of every entry of the catalog, opened as a
\* fresh page, resolves to that entry again.
C26_CanonicalUrlRoundTrip ==
    \A i \in DOMAIN gamesData.entries :
        OpenedAt(CanonicalPath(gamesData.entries[i].game)) = gamesData.entries[i].game

-----------------------------------------------------------------------------
(* What one load writes *)

\* C27: one successful call of GameUrlLoader.loadGame pushes exactly one
\* entry onto the browser's history, after the entry that was current, and
\* inserts into the recently played list exactly once.
C27_OnePushOneInsertion ==
    Succeeded =>
        /\ historyIndex = LastEvent.index + 1
        /\ Len(history) = LastEvent.index + 1
        /\ Len(recentLog) = LastEvent.adds + 1

-----------------------------------------------------------------------------
(* The recently played list of a visit *)

\* the ids of the entries of the loader's table, as stored
StoredIds == {gamesData.entries[i].game.id : i \in DOMAIN gamesData.entries}

\* C28: the recently played list holds every catalog entry at most once and
\* under its stored id, whatever keys the entry was asked for by.
C28_OneElementPerEntry ==
    /\ \A i \in DOMAIN RecentList : RecentList[i] \in StoredIds
    /\ \A i, j \in DOMAIN RecentList : RecentList[i] = RecentList[j] => i = j

-----------------------------------------------------------------------------
(* The two patching modules together *)

\* C29: with both patching modules installed, in either order,
\* document.createElement('script') returns an element without an error, and
\* an address assigned to its src afterwards is stored rewritten once.
C29_PatchesCompose ==
    \A i \in DOMAIN createdElements :
        (createdElements[i].tag = "script" /\ Len(createdElements[i].chain) = 2) =>
            /\ ~createdElements[i].threw
            /\ createdElements[i].asked # Undefined =>
                  createdElements[i].src = redirectString(urlMappings, createdElements[i].asked)

\* C30: the interception of xhr.open changes the address only: the browser's
\* open gets the method, the async flag, the user and the password the caller
\* gave, and an argument the caller left out is left out, so that a request
\* opened with two arguments is asynchronous.
C30_OpenChangesOnlyTheAddress ==
    \A i \in DOMAIN opens :
        opens[i].chain # <<>> =>
            /\ opens[i].seen[1] = opens[i].asked[1]
            /\ Len(opens[i].seen) = Len(opens[i].asked)
            /\ IsAsync(opens[i].seen) = IsAsync(opens[i].asked)
            /\ \A k \in {4, 5} :
                  Credential(opens[i].seen, k) = Credential(opens[i].asked, k)

=============================================================================
